---- MODULE Spec2Model ----
(***************************************************************************)
(* Field-discovery-and-mapping engine of the DHIS2 form automation         *)
(* (src/dhis_automation.py, class DHISSmartAutomation and main), its run   *)
(* through the backend service (src/backend/api/services) and the birth    *)
(* and death notification automations with their shared browser manager.   *)
(*                                                                         *)
(* Tabs are numbered: tab t stands for "Page<t>".  A form without tab      *)
(* elements (single-page mode) has tabs = 0 and one page, Page1.           *)
(***************************************************************************)
EXTENDS Integers, Sequences, FiniteSets, TLC

VARIABLES
    \* ---- mapping cache and its validation (load / discover) ----
    form,                \* the remote form as deployed now: [tabs, counts]
    now,                 \* wall clock, in hours
    cache_file,          \* dhis_field_mappings.json: [exists, timestamp, mappings, form_fingerprint]
    mapping_cache,       \* self.mapping_cache: semantic key -> [selector, tab]
    pc,                  \* position of the run in main()
    cache_loaded,        \* main's local cache_loaded
    current_fingerprint, \* load_cached_mappings' local current_fingerprint
    fingerprint_error,   \* an error occurred while the live fingerprint was recomputed
    validated,           \* load_cached_mappings reached the structural validation
    rediscovered,        \* discover_field_mappings ran in this run
    \* ---- fill_form_data ----
    fill_pc,             \* position inside fill_form_data
    fill_data,           \* its argument data: key -> value, in dict order 1..n
    field_state,         \* the form's control of each key: "ok", "hidden" or "broken"
    fields_by_tab,       \* the groups built by fill_form_data, in dict order
    group_index,         \* the tab group the loop is at
    results,             \* the result map: key -> BOOLEAN
    fill_log,            \* the actions issued to the page, in order
    switch_outcome,      \* what the page did at the switch to each tab visited
    tab_errors,          \* tabs whose processing raised after the switch
    backup_file,         \* dhis_field_mappings.json.backup_failed: [exists, content]
    \* ---- the mapping resolver (complete_mapping, LLM fallback, merge) ----
    resolve_pc,          \* position of main() in the mapping stage
    health_data,         \* the input record: input key -> value
    table_file,          \* complete_field_mapping.json: [exists, valid, mappings]
    openai_client,       \* an LLM client is configured
    tier_mapped,         \* what complete_mapping returned
    llm_raw,             \* what the language model answered
    llm_call,            \* whether the LLM tier was invoked, and on what input
    llm_mapped_data,     \* what map_health_data_to_dhis_fields returned
    mapped_data,         \* main's mapped_data
    resolve_log,         \* the steps of the last complete_mapping call
    resolve_run,         \* which resolution of the record this is
    prev_call,           \* result and steps of the previous resolution
    \* ---- organisational units: discovery and navigation by path ----
    org_pc,              \* position of main() in the org unit stage
    org_tree,            \* the remote tree: [root, children, name, toggle]
    expanded,            \* units whose children are loaded and shown
    org_cache_file,      \* dhis_org_units.json: [exists, age_hours, org_units]
    org_unit_cache,      \* self.org_unit_cache: name -> [id]
    org_mapping,         \* the mapping a running discovery is building
    disc_stack,          \* pending calls of the recursive discovery: [unit, depth]
    disc_events,         \* what the discovery did: [op, unit, depth]
    disc_return,         \* who called discover_organizational_units
    org_errors,          \* page errors raised so far in the org unit stage
    unit_path,           \* the argument of navigate_to_org_unit_by_path
    nav_index,           \* the path position the loop is at
    nav_log,             \* the actions of the navigation, in order
    nav_result,          \* what navigate_to_org_unit_by_path returned: "True", "False"
    nav_calls,           \* calls of navigate_to_org_unit_by_path in this run
    \* ---- one discovery pass over the page, tab by tab ----
    pass_pc,             \* position inside discover_field_mappings
    page_controls,       \* the page's input elements in document order:
                         \*   [id, dataelement, optioncombo, shown]
    landmarks,           \* the wait for the form's tables and inputs: "seen", "late", "never"
    tab_cursor,          \* the tab the loop is at
    pass_mappings,       \* the local mappings of discover_field_mappings
    raised_tabs,         \* tabs whose processing raised
    \* ---- one run from start to return, stage by stage ----
    run_variant,         \* "main", "service", "birth" or "death"
    run_pc,              \* the stage the run is at
    browser,             \* the launched browser: "none", "open", "closed"
    browser_page,        \* its page: "none", "open", "closed"
    run_log,             \* the calls made on the remote application: [op, ok]
    run_failure,         \* the stage that ended the run early, or "none"
    run_result,          \* the dictionary the run function returns
    run_outcome,         \* what the caller gets: "returned", "result", "raised"
    login_attempts,      \* authentication attempts made
    submit_seen,         \* what the submission captured: [status_code, api_response, indicator]
    \* ---- runs that share the mapping cache file ----
    race_pc,             \* position of each run: load, discover, open, write, ready, filled
    race_file,           \* the shared file: [exists, blocks]
    race_doc,            \* the document each run is writing
    race_pos,            \* the file position of each writer, in blocks
    race_mapping,        \* self.mapping_cache of each run
    race_read,           \* what each run's load found: none, missing, unparseable, parsed
    race_deployed,       \* the deployment of the form now
    race_products,       \* the mappings produced by the discoveries so far
    \* ---- the field loop of a birth or death report form ----
    count_pc,            \* "idle", "loop" or "returned"
    count_function,      \* fill_event_form, fill_person_profile or fill_event_fields
    count_fields,        \* the mapped fields in order: [type, value]
    count_index,         \* the field the loop is at
    filled_count,        \* the function's local filled_count
    fills_issued,        \* fill actions issued on the page
    fills_completed,     \* fill actions that completed without raising
    \* ---- the command line of the death report ----
    cli_pc,              \* "idle", "start", "automation", "returned" or "exited"
    no_complete,         \* the flag --no-complete
    complete_event,      \* the argument complete_event of automate
    cli_return,          \* what run_automation returned: "none", "False" or "result"
    exit_status,         \* the status of sys.exit: "none", "0" or "1"
    \* ---- the PDF upload endpoint of the backend ----
    upload_pc,           \* "idle", "request", "start", "ready_check", "fill",
                         \*   "automation", "done"
    upload_status,       \* upload.status of the record
    dhis_result,         \* the "status" of what fill_dhis_form returned, or "none"
    response,            \* the endpoint's answer: [code, status, error]
    \* ---- the offline generator of the table file ----
    match_pc,            \* "idle", "loop", "matched" or "done"
    health_field,        \* the components of the input field name
    candidates_seen,     \* remote keys the loop of find_best_match has scored
    best_match,          \* the best remote key so far, or NoMatch
    best_score,          \* its score, in thousandths
    best_factors,        \* its matching_factors
    entry_mapped         \* 'mapped' of the entry written for the input field

cacheVars == <<form, now, cache_file, mapping_cache, pc, cache_loaded,
               current_fingerprint, fingerprint_error, validated, rediscovered>>

fillVars == <<fill_pc, fill_data, field_state, fields_by_tab, group_index, results,
              fill_log, switch_outcome, tab_errors, backup_file>>

resolveVars == <<resolve_pc, health_data, table_file, openai_client, tier_mapped,
                 llm_raw, llm_call, llm_mapped_data, mapped_data, resolve_log,
                 resolve_run, prev_call>>

orgVars == <<org_pc, org_tree, expanded, org_cache_file, org_unit_cache, org_mapping,
             disc_stack, disc_events, disc_return, org_errors, unit_path, nav_index,
             nav_log, nav_result, nav_calls>>

passVars == <<pass_pc, page_controls, landmarks, tab_cursor, pass_mappings, raised_tabs>>

\* the stages that are modelled step by step in specifications of their own
runVars == <<run_variant, run_pc, browser, browser_page, run_log, run_failure,
             run_result, run_outcome, login_attempts, submit_seen>>

raceVars == <<race_pc, race_file, race_doc, race_pos, race_mapping, race_read,
              race_deployed, race_products>>

countVars == <<count_pc, count_function, count_fields, count_index, filled_count,
               fills_issued, fills_completed>>

\* the report tools' own stages
cliVars == <<cli_pc, no_complete, complete_event, cli_return, exit_status>>

uploadVars == <<upload_pc, upload_status, dhis_result, response>>

matchVars == <<match_pc, health_field, candidates_seen, best_match, best_score,
               best_factors, entry_mapped>>

toolVars == <<countVars, cliVars, uploadVars, matchVars>>

stageVars == <<passVars, runVars, raceVars, toolVars>>

vars == <<cacheVars, fillVars, resolveVars, orgVars, stageVars>>

notCache == <<fillVars, resolveVars, orgVars, stageVars>>

notFill == <<cacheVars, resolveVars, orgVars, stageVars>>

notOrg == <<cacheVars, fillVars, resolveVars, stageVars>>

notResolve == <<form, now, mapping_cache, pc, cache_loaded, current_fingerprint,
                fingerprint_error, validated, rediscovered, fillVars, orgVars, stageVars>>

notPass == <<fillVars, resolveVars, orgVars, runVars, raceVars, toolVars>>

notRun == <<cacheVars, fillVars, resolveVars, orgVars, passVars, raceVars, toolVars>>

notRace == <<cacheVars, fillVars, resolveVars, orgVars, passVars, runVars, toolVars>>

notCount == <<cacheVars, fillVars, resolveVars, orgVars, passVars, runVars, raceVars,
              cliVars, uploadVars, matchVars>>

notCli == <<cacheVars, fillVars, resolveVars, orgVars, passVars, raceVars, countVars,
            uploadVars, matchVars>>

notUpload == <<cacheVars, fillVars, resolveVars, orgVars, passVars, raceVars, countVars,
               cliVars, matchVars>>

notMatch == <<cacheVars, fillVars, resolveVars, orgVars, passVars, runVars, raceVars,
              countVars, cliVars, uploadVars>>

-----------------------------------------------------------------------------
(* Bounds of the model *)

RaceRuns == 2         \* runs that share the cache file
RaceKeys == 2         \* mapping entries of the shared cache document
RaceDeployments == 2  \* deployments of the form the runs may see
MaxReportFields == 3  \* most mapped fields of a report form
MaxCandidates == 2    \* most remote keys find_best_match is given
MaxTabs == 3          \* most tab elements a form version has
MaxTabErrors == 1     \* most tabs whose count raises in one fingerprint pass
MaxTicks == 3         \* clock ticks modelled
TickHours == 12       \* hours per clock tick
MaxFields == 10       \* most entries of the data handed to fill_form_data
FillTabs == 2         \* tabs of the multi-tab form that is filled
MaxInputKeys == 3     \* input keys 1..MaxInputKeys, besides the metadata key 0
MaxRemoteKeys == 3    \* remote keys the language model can name
MaxLLMKeys == 2       \* most keys in one answer of the language model
NumBasicRules == 2    \* hard-coded rules of the emergency table
MaxRuns == 2          \* resolutions of one record in succession
MaxPathLen == 3       \* longest unit path
MaxPathNames == 3     \* names 1..MaxPathNames a path can use, besides the unknown name 0
MaxOrgErrors == 1     \* page errors raised in one org unit stage

(* Program constants *)

CacheMaxAgeHours == 24   \* age_hours < 24
TotalVariancePct == 10   \* variance > 0.10
TabVariancePct == 15     \* cached_count * 0.15
TabVarianceMin == 5      \* max(5, ...)
LowSuccessPct == 50      \* success_rate < 0.5
LLMThreshold == 50       \* len(mapped_data) < 50
DefaultMaxDepth == 6     \* max_depth: int = 6
OrgCacheMaxAgeHours == 168  \* age_hours < 168
\* the scores of find_best_match, in thousandths
CategoryBonus == 400     \* score += 0.4
SubcategoryBonus == 300  \* score += 0.3
LocationBonus == 200     \* score += 0.2
AgeGroupBonus == 250     \* score += 0.25
GenderBonus == 300       \* score += 0.3
GenderPenalty == 800     \* score -= 0.8
DefaultBonus == 100      \* score += 0.1
FuzzyWeight == 100       \* score += fuzzy_score * 0.1
MinConfidence == 400     \* confidence_score >= 0.4

-----------------------------------------------------------------------------
(* Helpers *)

Abs(x) == IF x < 0 THEN -x ELSE x

Max2(a, b) == IF a >= b THEN a ELSE b

EmptyMap == <<>>

RECURSIVE SumOver(_, _)
SumOver(f, S) ==
    IF S = {} THEN 0
    ELSE LET t == CHOOSE x \in S : TRUE IN f[t] + SumOver(f, S \ {t})

-----------------------------------------------------------------------------
(* The remote form (environment) *)

\* input.entryfield counts a tab of some deployed form version can show
FieldCountChoices(t) ==
    CASE t = 1 -> {0, 3, 40, 42, 47}
      [] t = 2 -> {35, 40}
      [] t = 3 -> {20, 25}
      [] OTHER -> {20}

Pages(tabs) == 1..Max2(tabs, 1)

CountUniverse == UNION { FieldCountChoices(t) : t \in 1..(MaxTabs + 1) }

AllForms ==
    UNION { { [tabs |-> n, counts |-> c] :
                c \in { g \in [Pages(n) -> CountUniverse] :
                          \A t \in Pages(n) : g[t] \in FieldCountChoices(t) } } :
            n \in 0..MaxTabs }

\* the form versions the remote system deploys during the modelled runs
DeployedForms ==
    { f \in AllForms : /\ f.counts[1] \in {40, 47}
                       /\ \A t \in DOMAIN f.counts : t > 1 => f.counts[t] # 40 /\ f.counts[t] # 25 }

-----------------------------------------------------------------------------
(* generate_form_fingerprint *)

ZeroFingerprint ==
    [tabs_found |-> 0, total_field_estimate |-> 0, field_counts_per_tab |-> EmptyMap]

\* fatal: the whole computation raised (outer except); failedTabs: the tabs
\* whose click/count raised (inner except, the tab gets no entry)
GenerateFormFingerprint(f, fatal, failedTabs) ==
    IF fatal THEN ZeroFingerprint
    ELSE IF f.tabs > 0
    THEN LET counted == (1..f.tabs) \ failedTabs
         IN [tabs_found |-> f.tabs,
             total_field_estimate |-> SumOver(f.counts, counted),
             field_counts_per_tab |-> [t \in counted |-> f.counts[t]]]
    ELSE [tabs_found |-> 0,
          total_field_estimate |-> f.counts[1],
          field_counts_per_tab |-> [t \in {1} |-> f.counts[1]]]

TabErrorChoices(f) ==
    { E \in SUBSET (1..f.tabs) : Cardinality(E) <= MaxTabErrors }

FingerprintsOf(f) ==
    {ZeroFingerprint} \cup
    { GenerateFormFingerprint(f, FALSE, E) : E \in TabErrorChoices(f) }

-----------------------------------------------------------------------------
(* Structural comparison of load_cached_mappings *)

TabCountChanged(cached, current) ==
    current.tabs_found # cached.tabs_found

TotalChanged(cached, current) ==
    /\ cached.total_field_estimate > 0
    /\ 100 * Abs(current.total_field_estimate - cached.total_field_estimate)
         > TotalVariancePct * cached.total_field_estimate

CurrentCount(current, t) ==
    IF t \in DOMAIN current.field_counts_per_tab
    THEN current.field_counts_per_tab[t] ELSE 0

\* faulty variant: the 15% allowance is forgotten, only the floor of 5 is applied
PerTabChanged_FlatFive(cached, current) ==
    \E t \in DOMAIN cached.field_counts_per_tab :
        Abs(CurrentCount(current, t) - cached.field_counts_per_tab[t]) > TabVarianceMin

PerTabChanged(cached, current) ==
    \E t \in DOMAIN cached.field_counts_per_tab :
        LET cached_count == cached.field_counts_per_tab[t]
            d == Abs(CurrentCount(current, t) - cached_count)
        IN /\ d > TabVarianceMin
           /\ 100 * d > TabVariancePct * cached_count

StructureChanged(cached, current) ==
    \/ TabCountChanged(cached, current)
    \/ TotalChanged(cached, current)
    \/ PerTabChanged(cached, current)

\* cache_data.get('form_fingerprint', {}): no stored fingerprint
NoFingerprint == EmptyMap

\* the comparisons are made only "if cached_fingerprint:"
StructureChangedIfStored(cached, current) ==
    IF cached = NoFingerprint THEN FALSE ELSE StructureChanged(cached, current)

-----------------------------------------------------------------------------
(* The mapping cache file *)

NoCacheFile ==
    [exists |-> FALSE, timestamp |-> 0, mappings |-> EmptyMap,
     form_fingerprint |-> ZeroFingerprint]

AgeHours == now - cache_file.timestamp

\* the mappings a discovery pass finds when the tabs in `found` yield their
\* labelled control: one semantic key per tab, selector and owning tab
DiscoveredMappings(found) ==
    [k \in found |-> [selector |-> k, tab |-> k]]

\* a pass finds every tab's control, none (landmarks never appeared), or
\* all but the tabs whose processing raised
FoundChoices(f) ==
    {Pages(f.tabs), {}} \cup { Pages(f.tabs) \ {t} : t \in Pages(f.tabs) }

\* no fill pass is in progress
FillIdle ==
    /\ fill_pc = "idle"
    /\ fill_data = EmptyMap
    /\ field_state = EmptyMap
    /\ fields_by_tab = <<>>
    /\ group_index = 0
    /\ results = EmptyMap
    /\ fill_log = <<>>
    /\ switch_outcome = EmptyMap
    /\ tab_errors = {}
    /\ backup_file = [exists |-> FALSE, content |-> EmptyMap]

NoTableFile == [exists |-> FALSE, valid |-> FALSE, mappings |-> EmptyMap]

LLMNotCalled == [kind |-> "not_called", fields |-> EmptyMap]

NoCall == [result |-> EmptyMap, log |-> <<>>]

NoLLMCall == [invoked |-> FALSE, prompted |-> FALSE, input |-> EmptyMap]

\* the mapping stage has not started
ResolveIdle ==
    /\ resolve_pc = "idle"
    /\ health_data = EmptyMap
    /\ table_file = NoTableFile
    /\ openai_client = FALSE
    /\ tier_mapped = EmptyMap
    /\ llm_raw = LLMNotCalled
    /\ llm_call = NoLLMCall
    /\ llm_mapped_data = EmptyMap
    /\ mapped_data = EmptyMap
    /\ resolve_log = <<>>
    /\ resolve_run = 0
    /\ prev_call = NoCall

NoOrgTree == [root |-> 0, children |-> <<>>, name |-> <<>>, toggle |-> <<>>]

NoOrgCacheFile == [exists |-> FALSE, age_hours |-> 0, org_units |-> EmptyMap]

\* the org unit stage has not started
OrgIdle ==
    /\ org_pc = "idle"
    /\ org_tree = NoOrgTree
    /\ expanded = {}
    /\ org_cache_file = NoOrgCacheFile
    /\ org_unit_cache = EmptyMap
    /\ org_mapping = EmptyMap
    /\ disc_stack = <<>>
    /\ disc_events = {}
    /\ disc_return = "main"
    /\ org_errors = 0
    /\ unit_path = <<>>
    /\ nav_index = 0
    /\ nav_log = <<>>
    /\ nav_result = "none"
    /\ nav_calls = 0

\* no discovery pass is followed step by step
PassIdle ==
    /\ pass_pc = "idle"
    /\ page_controls = <<>>
    /\ landmarks = "seen"
    /\ tab_cursor = 0
    /\ pass_mappings = EmptyMap
    /\ raised_tabs = {}

\* HTTP status codes of the tracker API as the listener keeps them; NoStatus is
\* Python's None, StatusServerError stands for every code other than 200 and 409
NoStatus == "None"

StatusOK == "200"

StatusConflict == "409"

StatusServerError == "500"

\* nothing was submitted
NoSubmission == [status_code |-> NoStatus, api_response |-> "none", indicator |-> FALSE]

\* no dictionary was returned
NoResult ==
    [kind |-> "none", success |-> FALSE, status |-> "", status_code |-> NoStatus,
     api_response |-> "none"]

\* no run is followed stage by stage
RunIdle ==
    /\ run_variant = "none"
    /\ run_pc = "idle"
    /\ browser = "none"
    /\ browser_page = "none"
    /\ run_log = <<>>
    /\ run_failure = "none"
    /\ run_result = NoResult
    /\ run_outcome = "running"
    /\ login_attempts = 0
    /\ submit_seen = NoSubmission

\* no second run is followed
RaceIdle ==
    /\ race_pc = <<>>
    /\ race_file = [exists |-> FALSE, blocks |-> <<>>]
    /\ race_doc = <<>>
    /\ race_pos = <<>>
    /\ race_mapping = <<>>
    /\ race_read = <<>>
    /\ race_deployed = 1
    /\ race_products = {}

\* no field loop of a report form is followed
CountIdle ==
    /\ count_pc = "idle"
    /\ count_function = "none"
    /\ count_fields = <<>>
    /\ count_index = 0
    /\ filled_count = 0
    /\ fills_issued = 0
    /\ fills_completed = 0

\* the death report is not run from its command line: automate is called
\* with its default complete_event = True
CliIdle ==
    /\ cli_pc = "idle"
    /\ no_complete = FALSE
    /\ complete_event = TRUE
    /\ cli_return = "none"
    /\ exit_status = "none"

NoResponse == [code |-> "none", status |-> "none", error |-> "none"]

\* no upload is being processed
UploadIdle ==
    /\ upload_pc = "idle"
    /\ upload_status = "none"
    /\ dhis_result = "none"
    /\ response = NoResponse

\* extract_components of a name without any known part
NoComponents ==
    [category |-> "", subcategory |-> "", age_group |-> "", gender |-> "",
     destination |-> ""]

\* best_match = None
NoMatch == [category |-> "", marker |-> "", details |-> [kind |-> "none"]]

\* the table generator is not running
MatchIdle ==
    /\ match_pc = "idle"
    /\ health_field = NoComponents
    /\ candidates_seen = 0
    /\ best_match = NoMatch
    /\ best_score = 0
    /\ best_factors = {}
    /\ entry_mapped = FALSE

\* the stages outside `active` have not started
StagesIdle(active) ==
    /\ IF "pass" \in active THEN TRUE ELSE PassIdle
    /\ IF "run" \in active THEN TRUE ELSE RunIdle
    /\ IF "race" \in active THEN TRUE ELSE RaceIdle
    /\ IF "count" \in active THEN TRUE ELSE CountIdle
    /\ IF "cli" \in active THEN TRUE ELSE CliIdle
    /\ IF "upload" \in active THEN TRUE ELSE UploadIdle
    /\ IF "match" \in active THEN TRUE ELSE MatchIdle

-----------------------------------------------------------------------------
(* Actions of a run: main() up to "field mappings ready" *)

\* automation = DHISSmartAutomation(): a fresh object, empty mapping_cache
StartRun ==
    /\ UNCHANGED notCache
    /\ pc = "idle"
    /\ pc' = "load"
    /\ mapping_cache' = EmptyMap
    /\ cache_loaded' = FALSE
    /\ current_fingerprint' = ZeroFingerprint
    /\ fingerprint_error' = FALSE
    /\ validated' = FALSE
    /\ rediscovered' = FALSE
    /\ UNCHANGED <<form, now, cache_file>>

\* faulty variant: the cache never expires
CacheIsRecent_NoExpiry(age_hours) == age_hours >= 0

\* age_hours < 24
CacheIsRecent(age_hours) == age_hours < CacheMaxAgeHours

\* faulty variant: the cache is used whatever the comparison says
ValidationResult_AlwaysTrust(structure_changed) == TRUE

\* the value load_cached_mappings returns after the structural validation
ValidationResult(structure_changed) == ~structure_changed

LoadReturn(result) ==
    /\ cache_loaded' = result
    /\ pc' = IF result THEN "ready" ELSE "discover"

\* load_cached_mappings, followed by main's branch on its result
LoadCachedMappings ==
    /\ UNCHANGED notCache
    /\ pc = "load"
    /\ UNCHANGED <<form, now, cache_file, rediscovered>>
    /\ IF ~cache_file.exists
       THEN /\ LoadReturn(FALSE)
            /\ UNCHANGED <<mapping_cache, current_fingerprint, fingerprint_error, validated>>
       ELSE IF Cardinality(DOMAIN cache_file.mappings) = 0
       THEN /\ LoadReturn(FALSE)
            /\ UNCHANGED <<mapping_cache, current_fingerprint, fingerprint_error, validated>>
       ELSE IF CacheIsRecent(AgeHours)
       THEN \E fatal \in BOOLEAN, E \in TabErrorChoices(form) :
              LET current == GenerateFormFingerprint(form, fatal, E)
                  cached == cache_file.form_fingerprint
              IN /\ current_fingerprint' = current
                 /\ fingerprint_error' = (fatal \/ E # {})
                 /\ validated' = TRUE
                 /\ IF ValidationResult(StructureChangedIfStored(cached, current))
                    THEN /\ mapping_cache' = cache_file.mappings
                         /\ LoadReturn(TRUE)
                    ELSE /\ UNCHANGED mapping_cache
                         /\ LoadReturn(FALSE)
       ELSE /\ LoadReturn(FALSE)
            /\ UNCHANGED <<mapping_cache, current_fingerprint, fingerprint_error, validated>>

\* discover_field_mappings: discovery, fingerprint, persist, keep in memory
DiscoverFieldMappings ==
    /\ UNCHANGED notCache
    /\ pc = "discover"
    /\ \E found \in FoundChoices(form), fatal \in BOOLEAN, E \in TabErrorChoices(form) :
         LET mappings == DiscoveredMappings(found)
         IN /\ cache_file' = [exists |-> TRUE,
                              timestamp |-> now,
                              mappings |-> mappings,
                              form_fingerprint |-> GenerateFormFingerprint(form, fatal, E)]
            /\ mapping_cache' = mappings
    /\ rediscovered' = TRUE
    /\ pc' = "ready"
    /\ UNCHANGED <<form, now, cache_loaded, current_fingerprint, fingerprint_error, validated>>

\* the run goes on to mapping and filling and ends; the next run starts afresh
EndRun ==
    /\ UNCHANGED notCache
    /\ pc = "ready"
    /\ pc' = "idle"
    /\ UNCHANGED <<form, now, cache_file, mapping_cache, cache_loaded,
                   current_fingerprint, fingerprint_error, validated, rediscovered>>

(* Environment between runs *)

Tick ==
    /\ UNCHANGED notCache
    /\ pc = "idle"
    /\ now < MaxTicks * TickHours
    /\ now' = now + TickHours
    /\ UNCHANGED <<form, cache_file, mapping_cache, pc, cache_loaded,
                   current_fingerprint, fingerprint_error, validated, rediscovered>>

\* the remote system deploys another version of the form
FormChange ==
    /\ UNCHANGED notCache
    /\ pc = "idle"
    /\ \E f \in DeployedForms : f # form /\ form' = f
    /\ UNCHANGED <<now, cache_file, mapping_cache, pc, cache_loaded,
                   current_fingerprint, fingerprint_error, validated, rediscovered>>

\* the operator deletes the cache file (the tip logged by fill_form_data)
DeleteCacheFile ==
    /\ UNCHANGED notCache
    /\ pc = "idle"
    /\ cache_file.exists
    /\ cache_file' = NoCacheFile
    /\ UNCHANGED <<form, now, mapping_cache, pc, cache_loaded,
                   current_fingerprint, fingerprint_error, validated, rediscovered>>

Init ==
    /\ form \in DeployedForms
    /\ now = 0
    /\ cache_file = NoCacheFile
    /\ mapping_cache = EmptyMap
    /\ pc = "idle"
    /\ cache_loaded = FALSE
    /\ current_fingerprint = ZeroFingerprint
    /\ fingerprint_error = FALSE
    /\ validated = FALSE
    /\ rediscovered = FALSE
    /\ FillIdle
    /\ ResolveIdle
    /\ OrgIdle
    /\ StagesIdle({})

Next ==
    \/ StartRun
    \/ LoadCachedMappings
    \/ DiscoverFieldMappings
    \/ EndRun
    \/ Tick
    \/ FormChange
    \/ DeleteCacheFile

Spec == Init /\ [][Next]_vars

-----------------------------------------------------------------------------
(* The structural validation alone: a cache written less than 24h ago by a
   discovery on some form version, loaded against any form version *)

CacheFilesOf(g) ==
    { [exists |-> TRUE, timestamp |-> 0,
       mappings |-> DiscoveredMappings(Pages(g.tabs)),
       form_fingerprint |-> fp] : fp \in FingerprintsOf(g) }

InitTolerance ==
    /\ form \in AllForms
    /\ now = 0
    /\ cache_file \in UNION { CacheFilesOf(g) : g \in AllForms }
    /\ mapping_cache = EmptyMap
    /\ pc = "load"
    /\ cache_loaded = FALSE
    /\ current_fingerprint = ZeroFingerprint
    /\ fingerprint_error = FALSE
    /\ validated = FALSE
    /\ rediscovered = FALSE
    /\ FillIdle
    /\ ResolveIdle
    /\ OrgIdle
    /\ StagesIdle({})

NextTolerance == LoadCachedMappings

SpecTolerance == InitTolerance /\ [][NextTolerance]_vars

-----------------------------------------------------------------------------
(* The load of a cache file whose stored fingerprint is absent or is the
   zero fingerprint of a generation that failed, besides those a discovery
   on the same form wrote; the file is fresh or a day old *)

StoredFingerprints(g) == {NoFingerprint} \cup FingerprintsOf(g)

InitStored ==
    /\ form \in AllForms
    /\ now \in {0, CacheMaxAgeHours}
    /\ cache_file \in { [exists |-> TRUE, timestamp |-> 0,
                          mappings |-> DiscoveredMappings(Pages(form.tabs)),
                          form_fingerprint |-> fp] : fp \in StoredFingerprints(form) }
    /\ mapping_cache = EmptyMap
    /\ pc = "load"
    /\ cache_loaded = FALSE
    /\ current_fingerprint = ZeroFingerprint
    /\ fingerprint_error = FALSE
    /\ validated = FALSE
    /\ rediscovered = FALSE
    /\ FillIdle
    /\ ResolveIdle
    /\ OrgIdle
    /\ StagesIdle({})

NextStored == LoadCachedMappings

SpecStored == InitStored /\ [][NextStored]_vars

-----------------------------------------------------------------------------
(* Runs in succession on one form version that is never redeployed: what a
   run's discovery saved is what a later run's load finds *)

InitRoundTrip == Init

NextRoundTrip ==
    \/ StartRun
    \/ LoadCachedMappings
    \/ DiscoverFieldMappings
    \/ EndRun
    \/ Tick

SpecRoundTrip == InitRoundTrip /\ [][NextRoundTrip]_vars

-----------------------------------------------------------------------------
(* fill_form_data: the tab-aware filler.

   The remote page is the environment: what a tab switch does and what the
   control of a key does are its choices.  Reads and copies of local files
   succeed whenever the file exists. *)

\* Python values, as kind and str() rendering
NoneValue == <<"none", "None">>

EmptyString == <<"str", "">>

\* value is not None and value != ""
HasValue(value) == value # NoneValue /\ value # EmptyString

\* the keys that enter fields_by_tab
Eligible(data, mappings) ==
    { k \in DOMAIN data : HasValue(data[k]) /\ k \in DOMAIN mappings }

SetMin(S) == CHOOSE x \in S : \A y \in S : x <= y

RECURSIVE SortedSeq(_)
SortedSeq(S) ==
    IF S = {} THEN <<>>
    ELSE LET m == SetMin(S) IN <<m>> \o SortedSeq(S \ {m})

\* faulty variant: the fields are not collected per tab, every field is a
\* group of its own
GroupByTab_PerField(keys, mappings) ==
    [i \in 1..Cardinality(keys) |->
        [tab |-> mappings[SortedSeq(keys)[i]].tab, fields |-> <<SortedSeq(keys)[i]>>]]

\* fields_by_tab: one group per tab in order of first appearance, the keys
\* of a group in dict order
RECURSIVE GroupByTab(_, _)
GroupByTab(keys, mappings) ==
    IF keys = {} THEN <<>>
    ELSE LET first == SetMin(keys)
             tab == mappings[first].tab
             group == { k \in keys : mappings[k].tab = tab }
         IN <<[tab |-> tab, fields |-> SortedSeq(group)]>>
              \o GroupByTab(keys \ group, mappings)

SeqRange(q) == { q[i] : i \in DOMAIN q }

\* what the page can do at _switch_to_tab(tab): no tab element was clicked
\* (none matches, or every click raised), the tab was clicked and no control
\* is visible, the visible count is positive, or the count itself raised
SwitchOutcomes(f, tab) ==
    IF tab <= f.tabs
    THEN {"not_clicked", "zero_visible", "verified", "verify_raised"}
    ELSE {"not_clicked"}

\* faulty variant: the visible-control verification is dropped
SwitchToTab_NoVerification(outcome) == outcome # "not_clicked"

\* the value _switch_to_tab returns
SwitchToTab(outcome) == outcome \in {"verified", "verify_raised"}

\* the value fill_field_by_selector returns: wait_for(state="visible") times
\* out on a hidden control, clear/fill raises on a broken one
FillFieldBySelector(state) == state = "ok"

\* faulty variant: the except clause of the tab loop only logs
MarkGroupFailed_LogOnly(res, keys) == res

\* for field_name, _, _ in fields: results[field_name] = False
MarkGroupFailed(res, keys) ==
    [k \in DOMAIN res \cup keys |-> IF k \in keys THEN FALSE ELSE res[k]]

\* the inner loop over the fields of one group
FillGroup(res, keys, states) ==
    [k \in DOMAIN res \cup keys |->
        IF k \in keys THEN FillFieldBySelector(states[k]) ELSE res[k]]

\* the calls of fill_field_by_selector for one group, in order
FillEvents(fields, tab, states) ==
    [i \in DOMAIN fields |->
        [op |-> "fill", key |-> fields[i], tab |-> tab,
         ok |-> FillFieldBySelector(states[fields[i]])]]

Successful(res) == Cardinality({ k \in DOMAIN res : res[k] })

\* faulty variant: the threshold comparison includes 50%
LowSuccessRate_Inclusive(successful, total) ==
    total > 0 /\ 100 * successful <= LowSuccessPct * total

\* len(results) > 0 and successful / len(results) < 0.5
LowSuccessRate(successful, total) ==
    total > 0 /\ 100 * successful < LowSuccessPct * total

\* the reset to Page1 and the grouping
FillStart ==
    /\ fill_pc = "start"
    /\ fill_log' = <<[op |-> "reset", key |-> 0, tab |-> 1, ok |-> TRUE]>>
    /\ fields_by_tab' = GroupByTab(Eligible(fill_data, mapping_cache), mapping_cache)
    /\ group_index' = 1
    /\ results' = EmptyMap
    /\ fill_pc' = IF Eligible(fill_data, mapping_cache) = {} THEN "finish" ELSE "tabs"
    /\ UNCHANGED <<fill_data, field_state, switch_outcome, tab_errors, backup_file>>
    /\ UNCHANGED notFill

\* one iteration of "for tab_name, fields in fields_by_tab.items()"
FillTabGroup ==
    /\ fill_pc = "tabs"
    /\ LET group == fields_by_tab[group_index]
           keys == SeqRange(group.fields)
       IN \E outcome \in SwitchOutcomes(form, group.tab), wait_raised \in BOOLEAN :
            LET switched == SwitchToTab(outcome)
                switch_event == [op |-> "switch", key |-> 0, tab |-> group.tab, ok |-> switched]
            IN /\ switch_outcome' =
                    [t \in DOMAIN switch_outcome \cup {group.tab} |->
                        IF t = group.tab THEN outcome ELSE switch_outcome[t]]
               /\ IF ~switched
                  THEN /\ ~wait_raised
                       /\ results' = MarkGroupFailed(results, keys)
                       /\ fill_log' = Append(fill_log, switch_event)
                       /\ UNCHANGED tab_errors
                  ELSE /\ fill_log' = Append(fill_log, switch_event)
                                        \o FillEvents(group.fields, group.tab, field_state)
                       /\ IF wait_raised
                          THEN /\ results' = MarkGroupFailed(
                                                FillGroup(results, keys, field_state), keys)
                               /\ tab_errors' = tab_errors \cup {group.tab}
                          ELSE /\ results' = FillGroup(results, keys, field_state)
                               /\ UNCHANGED tab_errors
    /\ group_index' = group_index + 1
    /\ fill_pc' = IF group_index = Len(fields_by_tab) THEN "finish" ELSE "tabs"
    /\ UNCHANGED <<fill_data, field_state, fields_by_tab, backup_file>>
    /\ UNCHANGED notFill

\* the success rate, the self-healing backup and the return
FillFinish ==
    /\ fill_pc = "finish"
    /\ backup_file' =
         IF LowSuccessRate(Successful(results), Cardinality(DOMAIN results))
            /\ cache_file.exists
         THEN [exists |-> TRUE, content |-> cache_file.mappings]
         ELSE backup_file
    /\ fill_pc' = "done"
    /\ UNCHANGED <<fill_data, field_state, fields_by_tab, group_index, results,
                   fill_log, switch_outcome, tab_errors>>
    /\ UNCHANGED notFill

(* The fill passes modelled: n input entries with keys 1..n; the first
   controls are broken, the next hidden, the rest fillable; the form is
   single-page or has FillTabs tabs with the keys spread over them *)

TabOfKey(k, single) == IF single THEN 1 ELSE ((k - 1) % FillTabs) + 1

\* "plain": every entry has a value and a mapping; "mixed": entry 1 is "",
\* entry 2 has no mapping, entry 3 is None
DataShapes == {"plain", "mixed"}

ValueOf(k, shape) ==
    IF shape = "mixed" /\ k = 1 THEN EmptyString
    ELSE IF shape = "mixed" /\ k = 3 THEN NoneValue
    ELSE <<"str", "7">>

MappedKeys(n, shape) == IF shape = "mixed" THEN (1..n) \ {2} ELSE 1..n

FillMappings(n, shape, single) ==
    [k \in MappedKeys(n, shape) |-> [selector |-> k, tab |-> TabOfKey(k, single)]]

FillForm(single) ==
    IF single THEN [tabs |-> 0, counts |-> <<40>>]
    ELSE [tabs |-> FillTabs, counts |-> [t \in 1..FillTabs |-> 40]]

InitFill ==
    \E n \in 0..MaxFields, shape \in DataShapes, single \in BOOLEAN, on_disk \in BOOLEAN :
      \E n_broken \in 0..n :
        \E n_hidden \in 0..(n - n_broken) :
          /\ fill_data = [k \in 1..n |-> ValueOf(k, shape)]
          /\ field_state = [k \in 1..n |-> IF k <= n_broken THEN "broken"
                                           ELSE IF k <= n_broken + n_hidden THEN "hidden"
                                           ELSE "ok"]
          /\ mapping_cache = FillMappings(n, shape, single)
          /\ form = FillForm(single)
          /\ cache_file = IF on_disk
                          THEN [exists |-> TRUE, timestamp |-> 0,
                                mappings |-> FillMappings(n, shape, single),
                                form_fingerprint |->
                                    GenerateFormFingerprint(FillForm(single), FALSE, {})]
                          ELSE NoCacheFile
          /\ now = 0
          /\ pc = "ready"
          /\ cache_loaded = on_disk
          /\ current_fingerprint = ZeroFingerprint
          /\ fingerprint_error = FALSE
          /\ validated = FALSE
          /\ rediscovered = ~on_disk
          /\ fill_pc = "start"
          /\ fields_by_tab = <<>>
          /\ group_index = 0
          /\ results = EmptyMap
          /\ fill_log = <<>>
          /\ switch_outcome = EmptyMap
          /\ tab_errors = {}
          /\ backup_file = [exists |-> FALSE, content |-> EmptyMap]
          /\ ResolveIdle
          /\ OrgIdle
          /\ StagesIdle({})

NextFill ==
    \/ FillStart
    \/ FillTabGroup
    \/ FillFinish

SpecFill == InitFill /\ [][NextFill]_vars

-----------------------------------------------------------------------------
(* The mapping resolver: complete_mapping (table lookup, regeneration),
   map_health_data_to_dhis_fields (LLM fallback) and main's merge.

   Input keys and remote keys are numbered.  The language model is the
   environment: it raises, answers text that is no JSON, or answers any
   object over the remote-key universe, known keys or not. *)

\* str(value)
Str(value) == <<"str", value[2]>>

\* the header fields skipped by _try_complete_mapping
MetadataKeys == {0}

InputKeys == 0..MaxInputKeys

RemoteKeyUniverse == 1..MaxRemoteKeys

\* basic_mappings: the hard-coded rules, input key i -> remote key i
BasicMappings == [i \in 1..NumBasicRules |-> i]

\* the remote keys of the discovered-field cache file (dhis2_fields)
KnownRemoteKeys(cfile) == IF cfile.exists THEN DOMAIN cfile.mappings ELSE {}

SetMax(S) == CHOOSE x \in S : \A y \in S : x >= y

\* _try_complete_mapping: for input_field, value in health_data.items(),
\* a later entry overwrites an earlier one with the same remote key
TryCompleteMapping(tfile, data) ==
    IF ~tfile.exists \/ ~tfile.valid \/ DOMAIN tfile.mappings = {}
    THEN EmptyMap
    ELSE LET used == { i \in DOMAIN data : i \notin MetadataKeys /\ i \in DOMAIN tfile.mappings }
             targets == { tfile.mappings[i] : i \in used }
         IN [r \in targets |->
               Str(data[SetMax({ i \in used : tfile.mappings[i] = r })])]

\* _auto_regenerate_complete_mapping and _simple_mapping_regeneration: TRUE
\* when the emergency table is written
CanRegenerate(cfile) == cfile.exists /\ DOMAIN cfile.mappings # {}

RegeneratedTable(cfile) ==
    [exists |-> TRUE, valid |-> TRUE,
     mappings |-> [i \in { j \in DOMAIN BasicMappings :
                             BasicMappings[j] \in DOMAIN cfile.mappings }
                     |-> BasicMappings[i]]]

\* faulty variant: the model's keys are accepted without validation
ValidateMappings_Unchecked(fields, dhis2_fields) ==
    [k \in DOMAIN fields |-> Str(fields[k])]

\* the validation of mapped_fields against dhis2_fields
ValidateMappings(fields, dhis2_fields) ==
    [k \in DOMAIN fields \cap dhis2_fields |-> Str(fields[k])]

\* map_health_data_to_dhis_fields, given the model's answer
MapHealthData(client, cfile, answer) ==
    IF ~client THEN EmptyMap
    ELSE IF KnownRemoteKeys(cfile) = {} THEN EmptyMap
    ELSE IF answer.kind # "fields" THEN EmptyMap
    ELSE ValidateMappings(answer.fields, KnownRemoteKeys(cfile))

\* faulty variant: the LLM results are merged with dict.update
MergeLLM_Overwrite(mapped, llm) ==
    [k \in DOMAIN mapped \cup DOMAIN llm |->
        IF k \in DOMAIN llm THEN llm[k] ELSE mapped[k]]

\* main's merge: if field not in mapped_data: mapped_data[field] = value
MergeLLM(mapped, llm) ==
    [k \in DOMAIN mapped \cup DOMAIN llm |->
        IF k \in DOMAIN mapped THEN mapped[k] ELSE llm[k]]

\* the answers of the language model
LLMValues == {<<"int", "9">>, <<"str", "8">>}

LLMAnswers ==
    {[kind |-> "exception", fields |-> EmptyMap],
     [kind |-> "invalid_json", fields |-> EmptyMap]}
    \cup UNION { { [kind |-> "fields", fields |-> f] : f \in [S -> LLMValues] } :
                 S \in { T \in SUBSET RemoteKeyUniverse : Cardinality(T) <= MaxLLMKeys } }

\* the steps complete_mapping records
LookupStep(result) == [op |-> "lookup", ok |-> DOMAIN result # {}, result |-> result]

RegenerateStep(ok) == [op |-> "regenerate", ok |-> ok, result |-> EmptyMap]

\* faulty variant: the table is regenerated on every call
NeedsRegeneration_Always(first) == TRUE

\* if mapped_data: return mapped_data -- otherwise regeneration is attempted
NeedsRegeneration(first) == DOMAIN first = {}

\* faulty variant: the lookup is not retried after the regeneration
RetryAfterRegeneration_Skipped(cfile, data) == EmptyMap

\* the second _try_complete_mapping, on the table just written
RetryAfterRegeneration(cfile, data) ==
    TryCompleteMapping(RegeneratedTable(cfile), data)

\* complete_mapping: the result, the table file it leaves and its steps
CompleteMappingCall(tfile, cfile, data) ==
    LET first == TryCompleteMapping(tfile, data)
    IN IF ~NeedsRegeneration(first)
       THEN [result |-> first, table |-> tfile, log |-> <<LookupStep(first)>>]
       ELSE IF CanRegenerate(cfile)
       THEN LET second == RetryAfterRegeneration(cfile, data)
            IN [result |-> second, table |-> RegeneratedTable(cfile),
                log |-> <<LookupStep(first), RegenerateStep(TRUE), LookupStep(second)>>]
       ELSE [result |-> EmptyMap, table |-> tfile,
             log |-> <<LookupStep(first), RegenerateStep(FALSE)>>]

\* mapped_data = automation.complete_mapping(data)
CompleteMapping ==
    /\ resolve_pc = "start"
    /\ LET call == CompleteMappingCall(table_file, cache_file, health_data)
       IN /\ tier_mapped' = call.result
          /\ table_file' = call.table
          /\ resolve_log' = call.log
    /\ mapped_data' = tier_mapped'
    /\ resolve_pc' = "tier12"
    /\ UNCHANGED <<health_data, openai_client, llm_raw, llm_call, llm_mapped_data, cache_file,
                   resolve_run, prev_call>>
    /\ UNCHANGED notResolve

\* INPUT DATA of the prompt: json.dumps(health_data), the whole record
PromptInput(data) == data

\* faulty variant: the LLM tier is also entered at exactly 50 fields
LLMNeeded_Inclusive(mapped, client) ==
    Cardinality(DOMAIN mapped) <= LLMThreshold /\ client

\* if len(mapped_data) < 50 and automation.openai_client
LLMNeeded(mapped, client) ==
    Cardinality(DOMAIN mapped) < LLMThreshold /\ client

\* the LLM call, its validation and the merge
LLMFallback ==
    /\ resolve_pc = "tier12"
    /\ LLMNeeded(mapped_data, openai_client)
    /\ \E answer \in LLMAnswers :
         LET llm == MapHealthData(openai_client, cache_file, answer)
         IN /\ llm_raw' = IF KnownRemoteKeys(cache_file) = {} THEN LLMNotCalled ELSE answer
            /\ llm_call' = [invoked |-> TRUE,
                            prompted |-> KnownRemoteKeys(cache_file) # {},
                            input |-> PromptInput(health_data)]
            /\ llm_mapped_data' = llm
            /\ mapped_data' = MergeLLM(mapped_data, llm)
    /\ resolve_pc' = "mapped"
    /\ UNCHANGED <<health_data, table_file, openai_client, tier_mapped, cache_file,
                   resolve_log, resolve_run, prev_call>>
    /\ UNCHANGED notResolve

\* the LLM tier is not entered
SkipLLM ==
    /\ resolve_pc = "tier12"
    /\ ~LLMNeeded(mapped_data, openai_client)
    /\ resolve_pc' = "mapped"
    /\ UNCHANGED <<health_data, table_file, openai_client, tier_mapped, llm_raw, llm_call,
                   llm_mapped_data, mapped_data, cache_file, resolve_log,
                   resolve_run, prev_call>>
    /\ UNCHANGED notResolve

\* if not mapped_data: return; otherwise on to fill_form_data
ProceedToFill ==
    /\ resolve_pc = "mapped"
    /\ resolve_pc' = IF DOMAIN mapped_data = {} THEN "abort" ELSE "fill"
    /\ UNCHANGED <<health_data, table_file, openai_client, tier_mapped, llm_raw, llm_call,
                   llm_mapped_data, mapped_data, cache_file, resolve_log,
                   resolve_run, prev_call>>
    /\ UNCHANGED notResolve

\* the program is run again on the same record, with the files the
\* previous run left
ResolveAgain ==
    /\ resolve_pc \in {"fill", "abort"}
    /\ resolve_run < MaxRuns
    /\ resolve_run' = resolve_run + 1
    /\ prev_call' = [result |-> tier_mapped, log |-> resolve_log]
    /\ resolve_pc' = "start"
    /\ tier_mapped' = EmptyMap
    /\ llm_raw' = LLMNotCalled
    /\ llm_call' = NoLLMCall
    /\ llm_mapped_data' = EmptyMap
    /\ mapped_data' = EmptyMap
    /\ resolve_log' = <<>>
    /\ UNCHANGED <<health_data, table_file, openai_client, cache_file>>
    /\ UNCHANGED notResolve

(* The mapping stages modelled *)

InputValues == {<<"int", "5">>, <<"str", "62">>, <<"str", "false">>, <<"str", "true">>}

\* the value of a header field, e.g. the year
MetadataValue == <<"str", "2024">>

\* records just below and at the LLM threshold
LargeRecords ==
    { [i \in 1..n |-> <<"int", "5">>] : n \in {LLMThreshold - 1, LLMThreshold} }

\* a record: some of the input keys, the data keys carrying one value
HealthRecords ==
    { [i \in S |-> IF i \in MetadataKeys THEN MetadataValue ELSE v] :
        S \in SUBSET InputKeys, v \in InputValues }
    \cup LargeRecords

\* the table file: absent, unreadable, without mappings, the full generated
\* table (input key i -> remote key i), a table of the first key only, a
\* table that also lists a header field, or a table of LLMThreshold keys
TableFiles ==
    {NoTableFile,
     [exists |-> TRUE, valid |-> FALSE, mappings |-> EmptyMap],
     [exists |-> TRUE, valid |-> TRUE, mappings |-> EmptyMap],
     [exists |-> TRUE, valid |-> TRUE, mappings |-> [i \in 1..MaxInputKeys |-> i]],
     [exists |-> TRUE, valid |-> TRUE, mappings |-> [i \in {1} |-> i]],
     [exists |-> TRUE, valid |-> TRUE, mappings |-> [i \in {0, 1} |-> 2 - i]],
     [exists |-> TRUE, valid |-> TRUE, mappings |-> [i \in 1..LLMThreshold |-> i]]}

\* the discovered-field cache: absent, or the first n remote keys
FieldCaches ==
    {NoCacheFile} \cup
    { [exists |-> TRUE, timestamp |-> 0,
       mappings |-> [k \in 1..n |-> [selector |-> k, tab |-> 1]],
       form_fingerprint |-> ZeroFingerprint] : n \in 0..MaxRemoteKeys }

InitResolve ==
    /\ health_data \in HealthRecords
    /\ table_file \in TableFiles
    /\ cache_file \in FieldCaches
    /\ openai_client \in BOOLEAN
    /\ resolve_pc = "start"
    /\ tier_mapped = EmptyMap
    /\ llm_raw = LLMNotCalled
    /\ llm_call = NoLLMCall
    /\ llm_mapped_data = EmptyMap
    /\ mapped_data = EmptyMap
    /\ resolve_log = <<>>
    /\ resolve_run = 1
    /\ prev_call = NoCall
    /\ mapping_cache = cache_file.mappings
    /\ form = [tabs |-> 0, counts |-> <<40>>]
    /\ now = 0
    /\ pc = "ready"
    /\ cache_loaded = cache_file.exists
    /\ current_fingerprint = ZeroFingerprint
    /\ fingerprint_error = FALSE
    /\ validated = FALSE
    /\ rediscovered = ~cache_file.exists
    /\ FillIdle
    /\ OrgIdle
    /\ StagesIdle({})

NextResolve ==
    \/ CompleteMapping
    \/ LLMFallback
    \/ SkipLLM
    \/ ProceedToFill
    \/ ResolveAgain

SpecResolve == InitResolve /\ [][NextResolve]_vars

\* a call of complete_mapping, once made, runs to its return; main goes on
\* to the next statement
SpecResolveLive == SpecResolve /\ WF_vars(NextResolve)

-----------------------------------------------------------------------------
(* Organisational units: discover_organizational_units with its recursive
   expansion, load_org_unit_cache and navigate_to_org_unit_by_path.

   Units and their display names are numbered; name 0 stands for a unit
   without an anchor text, which no path can name.  The remote tree is the
   environment: it may be malformed (a unit reappearing among its own
   descendants) and two units may carry the same name. *)

Put(f, k, v) == [x \in DOMAIN f \cup {k} |-> IF x = k THEN v ELSE f[x]]

\* a root with two leaves
RegularTree ==
    [root |-> 1, children |-> <<<<2, 3>>, <<>>, <<>>>>,
     name |-> <<1, 2, 3>>, toggle |-> <<TRUE, FALSE, FALSE>>]

\* two units under different parents carry the same name
DupNameTree ==
    [root |-> 1, children |-> <<<<2, 3>>, <<4>>, <<5>>, <<>>, <<>>>>,
     name |-> <<1, 2, 3, 4, 4>>, toggle |-> <<TRUE, TRUE, TRUE, FALSE, FALSE>>]

\* the second leaf has no anchor text
NoAnchorTree == [RegularTree EXCEPT !.name = <<1, 2, 0>>]

\* a chain one level deeper than max_depth allows
ChainLength == DefaultMaxDepth + 2

ChainTree ==
    [root |-> 1,
     children |-> [u \in 1..ChainLength |-> IF u < ChainLength THEN <<u + 1>> ELSE <<>>],
     name |-> [u \in 1..ChainLength |-> u],
     toggle |-> [u \in 1..ChainLength |-> u < ChainLength]]

\* malformed: the root reappears below its own child
CycleTree ==
    [root |-> 1, children |-> <<<<2>>, <<1>>>>,
     name |-> <<1, 2>>, toggle |-> <<TRUE, TRUE>>]

OrgTrees == {RegularTree, DupNameTree, NoAnchorTree, ChainTree, CycleTree}

UnitsOf(tree) == DOMAIN tree.children

\* the units shown on the page: the root and the children of shown,
\* expanded units
RECURSIVE ShownFrom(_, _, _, _)
ShownFrom(tree, open, shown, k) ==
    IF k = 0 THEN shown
    ELSE ShownFrom(tree, open,
                   shown \cup UNION { SeqRange(tree.children[u]) : u \in shown \cap open },
                   k - 1)

VisibleUnits(tree, open) == ShownFrom(tree, open, {tree.root}, Cardinality(UnitsOf(tree)))

\* a page operation may raise while the error budget lasts
MayRaise(errors) == IF errors < MaxOrgErrors THEN BOOLEAN ELSE {FALSE}

\* load_org_unit_cache: the file exists and is younger than 7 days
OrgCacheUsable(file) == file.exists /\ file.age_hours < OrgCacheMaxAgeHours

\* _add_org_unit_to_mapping: org_mapping[name] = {...}, if the anchor has text
AddOrgUnit(mapping, tree, unit) ==
    IF tree.name[unit] = 0 THEN mapping
    ELSE Put(mapping, tree.name[unit], [id |-> unit])

\* faulty variant: the depth limit is off by one
DepthExceeded_OneMore(depth, max_depth) == depth > max_depth + 1

\* if depth > max_depth: return
DepthExceeded(depth, max_depth) == depth > max_depth

ChildFrames(tree, unit, depth) ==
    [i \in DOMAIN tree.children[unit] |->
        [unit |-> tree.children[unit][i], depth |-> depth + 1]]

DiscEvent(op, frame) == [op |-> op, unit |-> frame.unit, depth |-> frame.depth]

\* if not await automation.load_org_unit_cache(): discover_organizational_units()
OrgLoad ==
    /\ org_pc = "load"
    /\ IF OrgCacheUsable(org_cache_file)
       THEN /\ org_unit_cache' = org_cache_file.org_units
            /\ org_pc' = "navigate"
       ELSE /\ org_pc' = "discover"
            /\ UNCHANGED org_unit_cache
    /\ disc_return' = "main"
    /\ UNCHANGED <<org_tree, expanded, org_cache_file, org_mapping, disc_stack,
                   disc_events, org_errors, unit_path, nav_index, nav_log,
                   nav_result, nav_calls>>
    /\ UNCHANGED notOrg

\* where discover_organizational_units returns to
AfterDiscovery(caller) == IF caller = "main" THEN "navigate" ELSE "nav_wait"

\* discover_organizational_units up to the first recursive call; when the
\* tree container does not appear it returns {} and leaves the cache alone
DiscoverStart ==
    /\ org_pc = "discover"
    /\ \E raised \in MayRaise(org_errors) :
         IF raised
         THEN /\ org_errors' = org_errors + 1
              /\ org_pc' = AfterDiscovery(disc_return)
              /\ UNCHANGED <<org_mapping, disc_stack>>
         ELSE /\ org_mapping' = EmptyMap
              /\ disc_stack' = <<[unit |-> org_tree.root, depth |-> 0]>>
              /\ org_pc' = "discovering"
              /\ UNCHANGED org_errors
    /\ disc_events' = {}
    /\ UNCHANGED <<org_tree, expanded, org_cache_file, org_unit_cache, disc_return,
                   unit_path, nav_index, nav_log, nav_result, nav_calls>>
    /\ UNCHANGED notOrg

\* what can happen in one call of the recursion: it runs through, the
\* recording raises (swallowed by _add_org_unit_to_mapping), or a page
\* operation after the recording raises and ends the call
VisitOutcomes(errors) ==
    IF errors < MaxOrgErrors THEN {"ok", "add_raised", "raised"} ELSE {"ok"}

\* one call of _discover_all_org_units_recursive
DiscoverVisit ==
    /\ org_pc = "discovering"
    /\ disc_stack # <<>>
    /\ LET frame == Head(disc_stack)
           unit == frame.unit
       IN IF DepthExceeded(frame.depth, DefaultMaxDepth)
          THEN /\ disc_stack' = Tail(disc_stack)
               /\ disc_events' = disc_events \cup {DiscEvent("cut", frame)}
               /\ UNCHANGED <<org_mapping, expanded, org_errors>>
          ELSE \E outcome \in VisitOutcomes(org_errors) :
                 LET recorded == outcome # "add_raised" /\ org_tree.name[unit] # 0
                     descends == outcome # "raised" /\ org_tree.toggle[unit]
                     clicks == descends /\ unit \notin expanded
                 IN /\ org_mapping' = IF outcome = "add_raised" THEN org_mapping
                                      ELSE AddOrgUnit(org_mapping, org_tree, unit)
                    /\ expanded' = IF clicks THEN expanded \cup {unit} ELSE expanded
                    /\ disc_stack' = IF descends
                                     THEN ChildFrames(org_tree, unit, frame.depth)
                                          \o Tail(disc_stack)
                                     ELSE Tail(disc_stack)
                    /\ disc_events' = disc_events
                          \cup {DiscEvent("visit", frame)}
                          \cup (IF recorded THEN {DiscEvent("record", frame)} ELSE {})
                          \cup (IF clicks THEN {DiscEvent("expand", frame)} ELSE {})
                    /\ org_errors' = IF outcome = "ok" THEN org_errors ELSE org_errors + 1
    /\ UNCHANGED <<org_pc, org_tree, org_cache_file, org_unit_cache, disc_return,
                   unit_path, nav_index, nav_log, nav_result, nav_calls>>
    /\ UNCHANGED notOrg

\* the recursion has returned: the cache file is written and
\* self.org_unit_cache = org_mapping
DiscoverFinish ==
    /\ org_pc = "discovering"
    /\ disc_stack = <<>>
    /\ org_cache_file' = [exists |-> TRUE, age_hours |-> 0, org_units |-> org_mapping]
    /\ org_unit_cache' = org_mapping
    /\ org_pc' = AfterDiscovery(disc_return)
    /\ UNCHANGED <<org_tree, expanded, org_mapping, disc_stack, disc_events,
                   disc_return, org_errors, unit_path, nav_index, nav_log,
                   nav_result, nav_calls>>
    /\ UNCHANGED notOrg

(* navigate_to_org_unit_by_path *)

PathNames == 0..MaxPathNames

Paths == UNION { [1..n -> PathNames] : n \in 0..MaxPathLen }

\* if unit_name not in self.org_unit_cache: return False
NameKnown(name, cache) == name \in DOMAIN cache

\* faulty variant: the terminal name is expanded as well
ShouldExpand_All(i, n) == i <= n

\* if i < len(unit_path) - 1 (0-based): the unit is expanded
ShouldExpand(i, n) == i < n

\* if i == len(unit_path) - 1 (0-based): the unit is selected
ShouldSelect(i, n) == i = n

\* the call of navigate_to_org_unit_by_path, up to the try block: an empty
\* self.org_unit_cache is loaded from the file or rediscovered
NavigateStart ==
    /\ org_pc = "navigate"
    /\ \E path \in Paths : unit_path' = path
    /\ nav_calls' = nav_calls + 1
    /\ IF org_unit_cache # EmptyMap
       THEN /\ org_pc' = "nav_wait"
            /\ UNCHANGED org_unit_cache
       ELSE IF OrgCacheUsable(org_cache_file)
       THEN /\ org_unit_cache' = org_cache_file.org_units
            /\ org_pc' = "nav_wait"
       ELSE /\ org_pc' = "discover"
            /\ UNCHANGED org_unit_cache
    /\ disc_return' = "navigate"
    /\ nav_index' = 0
    /\ nav_log' = <<>>
    /\ nav_result' = "none"
    /\ UNCHANGED <<org_tree, expanded, org_cache_file, org_mapping, disc_stack,
                   disc_events, org_errors>>
    /\ UNCHANGED notOrg

\* faulty variant: main calls the navigation again after a failure
AfterNavigate_Retry(result) == IF result THEN "period" ELSE "navigate"

\* main after the call: on False it returns, on True it goes on to
\* select_period
AfterNavigate(result) == IF result THEN "period" ELSE "aborted"

\* the wait for the tree container; an empty path skips the loop
NavBegin ==
    /\ org_pc = "nav_wait"
    /\ \E raised \in MayRaise(org_errors) :
         IF raised
         THEN /\ org_errors' = org_errors + 1
              /\ nav_result' = "False"
              /\ org_pc' = AfterNavigate(FALSE)
              /\ UNCHANGED nav_index
         ELSE IF Len(unit_path) = 0
         THEN /\ nav_result' = "True"
              /\ org_pc' = AfterNavigate(TRUE)
              /\ UNCHANGED <<org_errors, nav_index>>
         ELSE /\ nav_index' = 1
              /\ org_pc' = "nav_loop"
              /\ UNCHANGED <<org_errors, nav_result>>
    /\ UNCHANGED <<org_tree, expanded, org_cache_file, org_unit_cache, org_mapping,
                   disc_stack, disc_events, disc_return, unit_path, nav_log, nav_calls>>
    /\ UNCHANGED notOrg

\* _expand_org_unit: a unit that is not on the page or has no toggle is
\* left alone; shown children need no click; otherwise the toggle is
\* clicked (a raising click is swallowed)
HasToggle(unit, tree, open) == unit \in VisibleUnits(tree, open) /\ tree.toggle[unit]

ExpandEntry(i, name, unit, tree, open, click_raised) ==
    [op |-> "expand", index |-> i, name |-> name, unit |-> unit,
     toggle |-> HasToggle(unit, tree, open),
     clicked |-> HasToggle(unit, tree, open) /\ unit \notin open /\ ~click_raised]

SelectEntry(i, name, unit) ==
    [op |-> "select", index |-> i, name |-> name, unit |-> unit,
     toggle |-> FALSE, clicked |-> TRUE]

\* one iteration of the loop over unit_path; _select_org_unit raises when
\* no selector strategy could click the anchor, as on a unit not shown
NavStep ==
    /\ org_pc = "nav_loop"
    /\ nav_index \in 1..Len(unit_path)
    /\ LET i == nav_index
           n == Len(unit_path)
           name == unit_path[i]
       IN IF ~NameKnown(name, org_unit_cache)
          THEN /\ nav_result' = "False"
               /\ org_pc' = AfterNavigate(FALSE)
               /\ UNCHANGED <<nav_index, nav_log, expanded, org_errors>>
          ELSE LET unit == org_unit_cache[name].id
                   expands == ShouldExpand(i, n)
                   selects == ShouldSelect(i, n)
                   may_click == expands /\ HasToggle(unit, org_tree, expanded)
                                        /\ unit \notin expanded
               IN \E click_raised \in (IF may_click THEN MayRaise(org_errors) ELSE {FALSE}) :
                    LET entry == ExpandEntry(i, name, unit, org_tree, expanded, click_raised)
                        open == IF expands /\ entry.clicked
                                THEN expanded \cup {unit} ELSE expanded
                        shown == unit \in VisibleUnits(org_tree, open)
                    IN \E select_raised \in (IF selects /\ shown /\ ~click_raised
                                             THEN MayRaise(org_errors) ELSE {FALSE}) :
                         LET selected == selects /\ shown /\ ~select_raised
                         IN /\ expanded' = open
                            /\ nav_log' = nav_log
                                 \o (IF expands THEN <<entry>> ELSE <<>>)
                                 \o (IF selected THEN <<SelectEntry(i, name, unit)>> ELSE <<>>)
                            /\ org_errors' = IF click_raised \/ select_raised
                                             THEN org_errors + 1 ELSE org_errors
                            /\ IF selects /\ ~selected
                               THEN /\ nav_result' = "False"
                                    /\ org_pc' = AfterNavigate(FALSE)
                                    /\ UNCHANGED nav_index
                               ELSE IF i = n
                               THEN /\ nav_result' = "True"
                                    /\ org_pc' = AfterNavigate(TRUE)
                                    /\ UNCHANGED nav_index
                               ELSE /\ nav_index' = i + 1
                                    /\ UNCHANGED <<org_pc, nav_result>>
    /\ UNCHANGED <<org_tree, org_cache_file, org_unit_cache, org_mapping, disc_stack,
                   disc_events, disc_return, unit_path, nav_calls>>
    /\ UNCHANGED notOrg

(* The org unit stages modelled *)

\* what an undisturbed discovery of the tree records, down to max_depth
KnownUnits(tree) == { u \in UnitsOf(tree) : u <= DefaultMaxDepth + 1 /\ tree.name[u] # 0 }

FullOrgMapping(tree) ==
    [nm \in { tree.name[u] : u \in KnownUnits(tree) } |->
        [id |-> SetMax({ u \in KnownUnits(tree) : tree.name[u] = nm })]]

\* the cache file: absent, fresh, a week old, or fresh but written before
\* the last unit was added to the tree
OrgCacheFilesOf(tree) ==
    {NoOrgCacheFile,
     [exists |-> TRUE, age_hours |-> 0, org_units |-> FullOrgMapping(tree)],
     [exists |-> TRUE, age_hours |-> OrgCacheMaxAgeHours, org_units |-> FullOrgMapping(tree)],
     [exists |-> TRUE, age_hours |-> 0,
      org_units |-> [nm \in DOMAIN FullOrgMapping(tree) \ {SetMax(DOMAIN FullOrgMapping(tree))}
                       |-> FullOrgMapping(tree)[nm]]]}

\* the mapping cache, as far as the org unit stage is concerned
CacheIdle ==
    /\ form = [tabs |-> 0, counts |-> <<40>>]
    /\ now = 0
    /\ cache_file = NoCacheFile
    /\ mapping_cache = EmptyMap
    /\ pc = "idle"
    /\ cache_loaded = FALSE
    /\ current_fingerprint = ZeroFingerprint
    /\ fingerprint_error = FALSE
    /\ validated = FALSE
    /\ rediscovered = FALSE

InitOrg ==
    /\ org_tree \in OrgTrees
    /\ org_cache_file \in OrgCacheFilesOf(org_tree)
    /\ org_pc = "load"
    /\ expanded = {}
    /\ org_unit_cache = EmptyMap
    /\ org_mapping = EmptyMap
    /\ disc_stack = <<>>
    /\ disc_events = {}
    /\ disc_return = "main"
    /\ org_errors = 0
    /\ unit_path = <<>>
    /\ nav_index = 0
    /\ nav_log = <<>>
    /\ nav_result = "none"
    /\ nav_calls = 0
    /\ CacheIdle
    /\ FillIdle
    /\ ResolveIdle
    /\ StagesIdle({})

NextOrg ==
    \/ OrgLoad
    \/ DiscoverStart
    \/ DiscoverVisit
    \/ DiscoverFinish
    \/ NavigateStart
    \/ NavBegin
    \/ NavStep

SpecOrg == InitOrg /\ [][NextOrg]_vars

\* the awaited calls of the org unit stage run to their return
SpecOrgLive == SpecOrg /\ WF_vars(NextOrg)

-----------------------------------------------------------------------------
(* discover_field_mappings step by step: the wait for the landmarks, the
   loop over the tabs with _discover_fields_on_current_tab, and the save.

   A control is an input element of the page: its id attribute (0: none),
   the texts of the data element and option combo spans of its cell
   (0: empty) and the tabs on which it is visible.  Element ids are unique
   on a page; a control outside the tab panels is visible on every tab. *)

MaxControls == 2      \* input elements of the page

\* field_name = f"{dataelement_text}||{optioncombo_text}"
FieldName(dataelement_text, optioncombo_text) == <<dataelement_text, optioncombo_text>>

\* faulty variant: the name is built from the data element and the tab
FieldEntry_NamedByTab(control, tab_name) ==
    [name |-> FieldName(control.dataelement, tab_name),
     selector |-> control.id, tab |-> tab_name]

\* mappings[field_name] = {"selector": f"#{input_id}", "tab": tab_name}
FieldEntry(control, tab_name) ==
    [name |-> FieldName(control.dataelement, control.optioncombo),
     selector |-> control.id, tab |-> tab_name]

\* the element has an id, is visible on the active tab and has a label text
Recordable(control, tab_name, seen) ==
    /\ seen # "never"
    /\ control.id # 0
    /\ tab_name \in control.shown
    /\ (control.dataelement # 0 \/ control.optioncombo # 0)

\* _discover_fields_on_current_tab: the loop over the input elements, in
\* document order from element i on
RECURSIVE DiscoverFieldsOnTab(_, _, _, _, _)
DiscoverFieldsOnTab(controls, tab_name, seen, i, mappings) ==
    IF i > Len(controls) THEN mappings
    ELSE DiscoverFieldsOnTab(controls, tab_name, seen, i + 1,
            IF Recordable(controls[i], tab_name, seen)
            THEN LET entry == FieldEntry(controls[i], tab_name)
                 IN Put(mappings, entry.name, [selector |-> entry.selector, tab |-> entry.tab])
            ELSE mappings)

\* mappings.update(tab_mappings)
UpdateMappings(mappings, tab_mappings) ==
    [k \in DOMAIN mappings \cup DOMAIN tab_mappings |->
        IF k \in DOMAIN tab_mappings THEN tab_mappings[k] ELSE mappings[k]]

\* tabs = [None] when no tab element is found
TabsToProcess(f) == Max2(f.tabs, 1)

\* faulty variant: a raising tab ends the loop
AfterTab_StopOnRaise(t, f, raised) ==
    IF raised \/ t = TabsToProcess(f) THEN "save" ELSE "tabs"

\* except: continue
AfterTab(t, f, raised) == IF t = TabsToProcess(f) THEN "save" ELSE "tabs"

\* the wait for table and input.entryfield: they appear in time, after the
\* timeout, or not at all
PassBegin ==
    /\ pc = "discover"
    /\ pass_pc = "begin"
    /\ \E seen \in {"seen", "late", "never"} : landmarks' = seen
    /\ tab_cursor' = 1
    /\ pass_mappings' = EmptyMap
    /\ raised_tabs' = {}
    /\ pass_pc' = "tabs"
    /\ UNCHANGED <<page_controls, cacheVars, notPass>>

\* one iteration of "for tab_index, tab in enumerate(tabs)": reading or
\* clicking the tab element may raise, the single page has no tab element
PassTab ==
    /\ pass_pc = "tabs"
    /\ \E raised \in (IF form.tabs > 0 /\ Cardinality(raised_tabs) < MaxTabErrors
                      THEN BOOLEAN ELSE {FALSE}) :
         /\ IF raised
            THEN /\ raised_tabs' = raised_tabs \cup {tab_cursor}
                 /\ UNCHANGED pass_mappings
            ELSE /\ pass_mappings' =
                       UpdateMappings(pass_mappings,
                           DiscoverFieldsOnTab(page_controls, tab_cursor, landmarks, 1, EmptyMap))
                 /\ UNCHANGED raised_tabs
         /\ pass_pc' = AfterTab(tab_cursor, form, raised)
    /\ tab_cursor' = tab_cursor + 1
    /\ UNCHANGED <<page_controls, landmarks, cacheVars, notPass>>

\* the fingerprint, the cache file and self.mapping_cache = mappings
PassSave ==
    /\ pass_pc = "save"
    /\ \E fatal \in BOOLEAN, E \in TabErrorChoices(form) :
         cache_file' = [exists |-> TRUE,
                        timestamp |-> now,
                        mappings |-> pass_mappings,
                        form_fingerprint |-> GenerateFormFingerprint(form, fatal, E)]
    /\ mapping_cache' = pass_mappings
    /\ rediscovered' = TRUE
    /\ pc' = "ready"
    /\ pass_pc' = "done"
    /\ UNCHANGED <<form, now, cache_loaded, current_fingerprint, fingerprint_error, validated>>
    /\ UNCHANGED <<page_controls, landmarks, tab_cursor, pass_mappings, raised_tabs, notPass>>

(* The pages modelled *)

ShownChoices(f) == { {t} : t \in Pages(f.tabs) } \cup {Pages(f.tabs)}

\* element i of the page: without id, without label text, with a data
\* element text only, or with both texts
ControlsAt(i, f) ==
    { [id |-> c[1], dataelement |-> c[2], optioncombo |-> c[3], shown |-> sh] :
        c \in {<<0, 1, 1>>, <<i, 0, 0>>, <<i, 1, 0>>, <<i, 1, 1>>},
        sh \in ShownChoices(f) }

PageLayouts(f) ==
    { q \in [1..MaxControls -> UNION { ControlsAt(i, f) : i \in 1..MaxControls }] :
        \A i \in 1..MaxControls : q[i] \in ControlsAt(i, f) }

InitDiscover ==
    /\ \E single \in BOOLEAN : form = FillForm(single)
    /\ page_controls \in PageLayouts(form)
    /\ now = 0
    /\ cache_file = NoCacheFile
    /\ mapping_cache = EmptyMap
    /\ pc = "discover"
    /\ cache_loaded = FALSE
    /\ current_fingerprint = ZeroFingerprint
    /\ fingerprint_error = FALSE
    /\ validated = FALSE
    /\ rediscovered = FALSE
    /\ pass_pc = "begin"
    /\ landmarks = "seen"
    /\ tab_cursor = 0
    /\ pass_mappings = EmptyMap
    /\ raised_tabs = {}
    /\ FillIdle
    /\ ResolveIdle
    /\ OrgIdle
    /\ StagesIdle({"pass"})

NextDiscover ==
    \/ PassBegin
    \/ PassTab
    \/ PassSave

SpecDiscover == InitDiscover /\ [][NextDiscover]_vars

\* the awaited page operations of the pass return or time out
SpecDiscoverLive == SpecDiscover /\ WF_vars(NextDiscover)

-----------------------------------------------------------------------------
(* One run from start to return, stage by stage, in the four variants:      *)
(* "main" (src/dhis_automation.py main), "service" (the backend's           *)
(* _run_automation_async), "birth" and "death" (the tracker automations     *)
(* used as `async with ... as automation: automation.automate(...)`).       *)
(* browser.close() and playwright.stop() are taken to succeed.              *)

\* the statements of main's try block, in order
MainStages ==
    <<"initialize", "login", "navigate_to_data_entry", "org_units",
      "navigate_to_org_unit_by_path", "select_period", "field_mappings", "load_data",
      "complete_mapping", "fill_form_data", "validate_form_data">>

\* the statements of _run_automation_async's try block, in order
ServiceStages ==
    <<"load_data", "initialize", "login", "navigate_to_data_entry", "org_units",
      "navigate_to_org_unit_by_path", "select_period", "field_mappings",
      "complete_mapping", "fill_form_data", "validate_form_data">>

\* the steps of BirthReportAutomation.automate, in order
BirthStages == <<"mappings", "login", "navigate", "fill", "submit">>

\* the steps of CompleteDeathAutomation.automate, in order
DeathStages ==
    <<"mappings", "login", "navigate", "fill", "save_person", "fill_event", "submit">>

RunStages(variant) ==
    CASE variant = "main" -> MainStages
      [] variant = "service" -> ServiceStages
      [] variant = "birth" -> BirthStages
      [] OTHER -> DeathStages

\* the stage that follows `stage` when it returns normally; "done" after the last
StageAfter(variant, stage) ==
    LET s == RunStages(variant)
        i == CHOOSE k \in 1..Len(s) : s[k] = stage
    IN  IF i = Len(s) THEN "done" ELSE s[i + 1]

DHISVariants == {"main", "service"}

ReportVariants == {"birth", "death"}

Logged(op, ok) == [op |-> op, ok |-> ok]

\* the stage returned normally: the run goes on with the next statement
Proceed(stage, ops) ==
    /\ run_pc' = (IF StageAfter(run_variant, stage) = "done"
                  THEN "cleanup" ELSE StageAfter(run_variant, stage))
    /\ run_log' = run_log \o ops
    /\ UNCHANGED run_failure

\* main: `return` or an exception caught by `except Exception`, then `finally`;
\* service: `raise` or an exception, caught by the handler that cleans up
Abandon(stage, ops) ==
    /\ run_pc' = "cleanup"
    /\ run_log' = run_log \o ops
    /\ run_failure' = stage

\* automation.initialize(): launch, new_context, new_page
RunInitialize ==
    /\ run_variant \in DHISVariants
    /\ run_pc = "initialize"
    /\ \E outcome \in {"ok", "no_browser", "no_page"} :
        /\ browser' = (IF outcome = "no_browser" THEN "none" ELSE "open")
        /\ browser_page' = (IF outcome = "ok" THEN "open" ELSE "none")
        /\ IF outcome = "ok"
           THEN Proceed("initialize", <<>>)
           ELSE Abandon("initialize", <<>>)
    /\ UNCHANGED <<run_variant, run_result, run_outcome, login_attempts, submit_seen>>
    /\ UNCHANGED notRun

\* automation.login(url, username, password): goto, fill, click, wait for the landmark
RunLogin ==
    /\ run_variant \in DHISVariants
    /\ run_pc = "login"
    /\ login_attempts' = login_attempts + 1
    /\ \E landmark \in BOOLEAN :
        IF landmark
        THEN Proceed("login", <<Logged("login", TRUE)>>)
        ELSE Abandon("login", <<Logged("login", FALSE)>>)
    /\ UNCHANGED <<run_variant, browser, browser_page, run_result, run_outcome,
                   submit_seen>>
    /\ UNCHANGED notRun

\* automation.navigate_to_data_entry(): no handler of its own
RunNavigateToDataEntry ==
    /\ run_variant \in DHISVariants
    /\ run_pc = "navigate_to_data_entry"
    /\ \E ok \in BOOLEAN :
        IF ok
        THEN Proceed("navigate_to_data_entry", <<Logged("navigate_to_data_entry", TRUE)>>)
        ELSE Abandon("navigate_to_data_entry", <<Logged("navigate_to_data_entry", FALSE)>>)
    /\ UNCHANGED <<run_variant, browser, browser_page, run_result, run_outcome,
                   login_attempts, submit_seen>>
    /\ UNCHANGED notRun

\* if not load_org_unit_cache(): discover_organizational_units(); neither raises
RunOrgUnits ==
    /\ run_variant \in DHISVariants
    /\ run_pc = "org_units"
    /\ \E loaded \in BOOLEAN :
        Proceed("org_units",
                IF loaded
                THEN <<Logged("load_org_unit_cache", TRUE)>>
                ELSE <<Logged("load_org_unit_cache", FALSE),
                       Logged("discover_organizational_units", TRUE)>>)
    /\ UNCHANGED <<run_variant, browser, browser_page, run_result, run_outcome,
                   login_attempts, submit_seen>>
    /\ UNCHANGED notRun

\* success = navigate_to_org_unit_by_path(path); main returns, the service raises
RunNavigateByPath ==
    /\ run_variant \in DHISVariants
    /\ run_pc = "navigate_to_org_unit_by_path"
    /\ \E success \in BOOLEAN :
        IF success
        THEN Proceed("navigate_to_org_unit_by_path",
                     <<Logged("navigate_to_org_unit_by_path", TRUE)>>)
        ELSE Abandon("navigate_to_org_unit_by_path",
                     <<Logged("navigate_to_org_unit_by_path", FALSE)>>)
    /\ UNCHANGED <<run_variant, browser, browser_page, run_result, run_outcome,
                   login_attempts, submit_seen>>
    /\ UNCHANGED notRun

\* select_period(): its handler covers the selection, not the wait after it
RunSelectPeriod ==
    /\ run_variant \in DHISVariants
    /\ run_pc = "select_period"
    /\ \E ok \in BOOLEAN :
        IF ok
        THEN Proceed("select_period", <<Logged("select_period", TRUE)>>)
        ELSE Abandon("select_period", <<Logged("select_period", FALSE)>>)
    /\ UNCHANGED <<run_variant, browser, browser_page, run_result, run_outcome,
                   login_attempts, submit_seen>>
    /\ UNCHANGED notRun

\* cache_loaded = load_cached_mappings(); if not cache_loaded: discover_field_mappings()
RunFieldMappings ==
    /\ run_variant \in DHISVariants
    /\ run_pc = "field_mappings"
    /\ \E loaded \in BOOLEAN, ok \in BOOLEAN :
        IF loaded
        THEN /\ ok
             /\ Proceed("field_mappings", <<Logged("load_cached_mappings", TRUE)>>)
        ELSE IF ok
        THEN Proceed("field_mappings", <<Logged("load_cached_mappings", FALSE),
                                         Logged("discover_field_mappings", TRUE)>>)
        ELSE Abandon("field_mappings", <<Logged("load_cached_mappings", FALSE),
                                         Logged("discover_field_mappings", FALSE)>>)
    /\ UNCHANGED <<run_variant, browser, browser_page, run_result, run_outcome,
                   login_attempts, submit_seen>>
    /\ UNCHANGED notRun

\* open(file); json.load: main logs and returns, in the service the error propagates
RunLoadData ==
    /\ run_variant \in DHISVariants
    /\ run_pc = "load_data"
    /\ \E ok \in BOOLEAN :
        IF ok THEN Proceed("load_data", <<>>) ELSE Abandon("load_data", <<>>)
    /\ UNCHANGED <<run_variant, browser, browser_page, run_result, run_outcome,
                   login_attempts, submit_seen>>
    /\ UNCHANGED notRun

\* mapped_data = complete_mapping(data) (and the LLM merge in main); empty: give up
RunCompleteMapping ==
    /\ run_variant \in DHISVariants
    /\ run_pc = "complete_mapping"
    /\ \E empty \in BOOLEAN :
        IF empty
        THEN Abandon("complete_mapping", <<>>)
        ELSE Proceed("complete_mapping", <<>>)
    /\ UNCHANGED <<run_variant, browser, browser_page, run_result, run_outcome,
                   login_attempts, submit_seen>>
    /\ UNCHANGED notRun

\* results = fill_form_data(mapped_data): every page error is handled inside
RunFill ==
    /\ run_variant \in DHISVariants
    /\ run_pc = "fill_form_data"
    /\ Proceed("fill_form_data", <<Logged("fill_form_data", TRUE)>>)
    /\ UNCHANGED <<run_variant, browser, browser_page, run_result, run_outcome,
                   login_attempts, submit_seen>>
    /\ UNCHANGED notRun

\* validation_success = validate_form_data(): True, or False on any error
RunValidate ==
    /\ run_variant \in DHISVariants
    /\ run_pc = "validate_form_data"
    /\ \E validation_success \in BOOLEAN :
        /\ Proceed("validate_form_data", <<Logged("validate_form_data", validation_success)>>)
        /\ run_result' = [run_result EXCEPT !.status =
                             IF validation_success
                             THEN "completed" ELSE "completed_with_warnings"]
    /\ UNCHANGED <<run_variant, browser, browser_page, run_outcome, login_attempts,
                   submit_seen>>
    /\ UNCHANGED notRun

\* cleanup(): if self.browser: browser.close()
cleanup(b) == IF b = "open" THEN "closed" ELSE b

\* main: the finally clause, then the function ends without a value;
\* service: cleanup, then the result dictionary or `raise Exception(...)`
RunCleanup ==
    /\ run_variant \in DHISVariants
    /\ run_pc = "cleanup"
    /\ browser' = cleanup(browser)
    /\ browser_page' = (IF browser = "open" THEN "closed" ELSE browser_page)
    /\ run_pc' = "returned"
    /\ IF run_variant = "main"
       THEN /\ run_outcome' = "returned"
            /\ run_result' = NoResult
       ELSE IF run_failure = "none"
       THEN /\ run_outcome' = "result"
            /\ run_result' = [run_result EXCEPT !.kind = "result", !.success = TRUE]
       ELSE /\ run_outcome' = "raised"
            /\ run_result' = NoResult
    /\ UNCHANGED <<run_variant, run_log, run_failure, login_attempts, submit_seen>>
    /\ UNCHANGED notRun

\* ---- the tracker automations (birth and death notification) ----

\* automate returns a dictionary with success False
ReturnFailure(stage, ops) ==
    /\ run_pc' = "exit"
    /\ run_log' = run_log \o ops
    /\ run_failure' = stage
    /\ run_result' = [NoResult EXCEPT !.kind = "result"]

\* an exception reaches automate's `except Exception`
ToHandler(stage, ops) ==
    /\ run_pc' = "except"
    /\ run_log' = run_log \o ops
    /\ run_failure' = stage
    /\ UNCHANGED run_result

\* a step that answers True, answers False, or raises from its own handler
BoolStep(stage, op, answer) ==
    CASE answer = "True" ->
            /\ run_pc' = StageAfter(run_variant, stage)
            /\ run_log' = Append(run_log, Logged(op, TRUE))
            /\ UNCHANGED <<run_failure, run_result>>
      [] answer = "False" -> ReturnFailure(stage, <<Logged(op, FALSE)>>)
      [] OTHER -> ToHandler(stage, <<Logged(op, FALSE)>>)

\* __aenter__: initialize() through launch_browser; when it raises the block is
\* not entered and __aexit__ is not called
ReportEnter ==
    /\ run_variant \in ReportVariants
    /\ run_pc = "enter"
    /\ \E launched \in BOOLEAN :
        IF launched
        THEN /\ browser' = "open"
             /\ browser_page' = "open"
             /\ run_pc' = "mappings"
             /\ UNCHANGED <<run_failure, run_outcome>>
        ELSE /\ UNCHANGED <<browser, browser_page>>
             /\ run_pc' = "returned"
             /\ run_failure' = "enter"
             /\ run_outcome' = "raised"
    /\ UNCHANGED <<run_variant, run_log, run_result, login_attempts, submit_seen>>
    /\ UNCHANGED notRun

\* the field mappings file: birth returns a failure when neither file exists;
\* open and json.load raise into the handler
ReportLoadMappings ==
    /\ run_variant \in ReportVariants
    /\ run_pc = "mappings"
    /\ \E file \in {"read", "missing", "unreadable"} :
        CASE file = "read" ->
                /\ run_pc' = StageAfter(run_variant, "mappings")
                /\ UNCHANGED <<run_log, run_failure, run_result>>
          [] file = "missing" /\ run_variant = "birth" -> ReturnFailure("mappings", <<>>)
          [] OTHER -> ToHandler("mappings", <<>>)
    /\ UNCHANGED <<run_variant, browser, browser_page, run_outcome, login_attempts,
                   submit_seen>>
    /\ UNCHANGED notRun

\* login(): one attempt; on an error a screenshot (which may raise) and False
ReportLogin ==
    /\ run_variant \in ReportVariants
    /\ run_pc = "login"
    /\ login_attempts' = login_attempts + 1
    /\ \E answer \in {"True", "False", "raise"} : BoolStep("login", "login", answer)
    /\ UNCHANGED <<run_variant, browser, browser_page, run_outcome, submit_seen>>
    /\ UNCHANGED notRun

\* navigate_to_new_event_form / navigate_to_new_person_form(program_id, org_unit_id)
ReportNavigate ==
    /\ run_variant \in ReportVariants
    /\ run_pc = "navigate"
    /\ \E answer \in {"True", "False", "raise"} : BoolStep("navigate", "navigate", answer)
    /\ UNCHANGED <<run_variant, browser, browser_page, run_outcome, login_attempts,
                   submit_seen>>
    /\ UNCHANGED notRun

\* birth: screenshot, fill_event_form, screenshot;
\* death: the enrollment date and fill_person_profile
ReportFill ==
    /\ run_variant \in ReportVariants
    /\ run_pc = "fill"
    /\ \E answer \in {"True", "raise"} : BoolStep("fill", "fill", answer)
    /\ UNCHANGED <<run_variant, browser, browser_page, run_outcome, login_attempts,
                   submit_seen>>
    /\ UNCHANGED notRun

\* death: save_person_and_navigate_to_event()
ReportSavePerson ==
    /\ run_variant = "death"
    /\ run_pc = "save_person"
    /\ \E answer \in {"True", "False", "raise"} :
        BoolStep("save_person", "save_person", answer)
    /\ UNCHANGED <<run_variant, browser, browser_page, run_outcome, login_attempts,
                   submit_seen>>
    /\ UNCHANGED notRun

\* death: fill_event_fields(event_data, event_mappings)
ReportFillEvent ==
    /\ run_variant = "death"
    /\ run_pc = "fill_event"
    /\ \E answer \in {"True", "raise"} : BoolStep("fill_event", "fill_event", answer)
    /\ UNCHANGED <<run_variant, browser, browser_page, run_outcome, login_attempts,
                   submit_seen>>
    /\ UNCHANGED notRun

\* the status codes the tracker endpoint answers with; NoStatus: none was captured
StatusCodes == {NoStatus, StatusOK, StatusConflict, StatusServerError}

\* handle_response: status_code = response.status; api_response = await response.json()
Captured(status_code, is_json) ==
    IF status_code # NoStatus /\ is_json THEN "body" ELSE "none"

\* save_event with the page indicator consulted before the conflict
save_event_IndicatorFirst(status_code, success) ==
    IF status_code = StatusOK THEN TRUE
    ELSE IF success THEN TRUE
    ELSE FALSE

\* CompleteDeathAutomation.save_event: the decision after the click
save_event(status_code, success) ==
    IF status_code = StatusOK THEN TRUE
    ELSE IF status_code = StatusConflict THEN FALSE
    ELSE IF success THEN TRUE
    ELSE FALSE

\* BirthReportAutomation.submit_form: the decision after the click
submit_form(status_code, success) ==
    IF status_code = StatusOK THEN TRUE
    ELSE IF status_code = StatusConflict THEN FALSE
    ELSE FALSE

Saved(variant, status_code, success) ==
    IF variant = "death"
    THEN save_event(status_code, success)
    ELSE submit_form(status_code, success)

\* save_event(complete): if complete, the click on the "Complete event"
\* radio button, in a try of its own
MarkComplete(variant, complete, marked) ==
    IF variant = "death" /\ complete
    THEN <<Logged("mark_complete", marked)>>
    ELSE <<>>

\* success, enrollment_id, api_response, status_code =
\* save_event(complete=complete_event) / submit_form(), and what automate
\* makes of it
ReportSubmit ==
    /\ run_variant \in ReportVariants
    /\ run_pc = "submit"
    /\ \E status_code \in StatusCodes, is_json \in BOOLEAN, indicator \in BOOLEAN,
          click \in {"ok", "raise"}, screenshot \in BOOLEAN, marked \in BOOLEAN :
        LET answered == IF click = "ok" THEN status_code ELSE NoStatus
            success == click = "ok" /\ Saved(run_variant, answered, indicator)
            shoots == \/ click = "raise"
                      \/ ~success /\ answered # StatusConflict
                      \/ success /\ run_variant = "birth"
        IN  /\ submit_seen' = [status_code |-> answered,
                             api_response |-> Captured(answered, is_json),
                             indicator |-> click = "ok" /\ indicator]
            /\ run_log' = run_log \o MarkComplete(run_variant, complete_event, marked)
                                  \o <<Logged("submit", success)>>
            /\ (~shoots => screenshot)
            /\ IF ~screenshot
               THEN /\ run_pc' = "except"
                    /\ run_failure' = "submit"
                    /\ UNCHANGED run_result
               ELSE /\ run_pc' = "exit"
                    /\ run_failure' = (IF success THEN run_failure ELSE "submit")
                    /\ run_result' =
                         [kind |-> "result", success |-> success, status |-> "",
                          status_code |-> answered,
                          api_response |-> Captured(answered, is_json)]
    /\ UNCHANGED <<run_variant, browser, browser_page, run_outcome, login_attempts>>
    /\ UNCHANGED notRun

\* automate's `except Exception`: a screenshot, then a dictionary with success False
ReportExcept ==
    /\ run_variant \in ReportVariants
    /\ run_pc = "except"
    /\ \E screenshot \in BOOLEAN :
        run_result' = (IF screenshot THEN [NoResult EXCEPT !.kind = "result"] ELSE NoResult)
    /\ run_pc' = "exit"
    /\ UNCHANGED <<run_variant, browser, browser_page, run_log, run_failure, run_outcome,
                   login_attempts, submit_seen>>
    /\ UNCHANGED notRun

\* close_browser(playwright, browser, page): page.close(), browser.close(),
\* playwright.stop(), one after the other
close_browser(closes) ==
    IF closes
    THEN [browser |-> "closed", raised |-> FALSE]
    ELSE [browser |-> "open", raised |-> TRUE]

\* __aexit__: close(); the block's value or exception reaches the caller
ReportExit ==
    /\ run_variant \in ReportVariants
    /\ run_pc = "exit"
    /\ \E closes \in BOOLEAN :
        LET closed == close_browser(closes)
        IN  /\ browser' = closed.browser
            /\ browser_page' = (IF closes THEN "closed" ELSE browser_page)
            /\ run_outcome' = (IF closed.raised \/ run_result.kind = "none"
                               THEN "raised" ELSE "result")
    /\ run_pc' = "returned"
    /\ UNCHANGED <<run_variant, run_log, run_failure, run_result, login_attempts,
                   submit_seen>>
    /\ UNCHANGED notRun

InitRun ==
    /\ CacheIdle
    /\ FillIdle
    /\ ResolveIdle
    /\ OrgIdle
    /\ StagesIdle({"run"})
    /\ run_variant \in DHISVariants \cup ReportVariants
    /\ run_pc = (IF run_variant \in DHISVariants THEN RunStages(run_variant)[1] ELSE "enter")
    /\ browser = "none"
    /\ browser_page = "none"
    /\ run_log = <<>>
    /\ run_failure = "none"
    /\ run_result = NoResult
    /\ run_outcome = "running"
    /\ login_attempts = 0
    /\ submit_seen = NoSubmission

NextRun ==
    \/ RunInitialize
    \/ RunLogin
    \/ RunNavigateToDataEntry
    \/ RunOrgUnits
    \/ RunNavigateByPath
    \/ RunSelectPeriod
    \/ RunFieldMappings
    \/ RunLoadData
    \/ RunCompleteMapping
    \/ RunFill
    \/ RunValidate
    \/ RunCleanup
    \/ ReportEnter
    \/ ReportLoadMappings
    \/ ReportLogin
    \/ ReportNavigate
    \/ ReportFill
    \/ ReportSavePerson
    \/ ReportFillEvent
    \/ ReportSubmit
    \/ ReportExcept
    \/ ReportExit

SpecRun == InitRun /\ [][NextRun]_vars

-----------------------------------------------------------------------------
(* Two runs that share dhis_field_mappings.json.  The file is a sequence of
   blocks, the units in which a buffered writer hands its text to the
   operating system: the head (timestamp, page_url), one block per mapping
   entry, the tail (totals, form_fingerprint and the closing brace).  Each
   writer has a file position of its own; open(..., 'w') truncates the file.
   Both runs work on the same form, so their documents have the same layout;
   a redeployment in between gives the controls new ids and leaves the
   counts, hence the fingerprint, as they were.  A load reads the file in
   one piece. *)

Runs == 1..RaceRuns

HeadBlock == [part |-> "head", key |-> 0, selector |-> 0]

TailBlock == [part |-> "tail", key |-> 0, selector |-> 0]

HoleBlock == [part |-> "hole", key |-> 0, selector |-> 0]

\* the id of the control of key k in deployment v
RaceSelector(k, v) == (v - 1) * RaceKeys + k

\* cache_data as json.dump emits it after a discovery of deployment v
Document(v) ==
    <<HeadBlock>>
      \o [k \in 1..RaceKeys |-> [part |-> "entry", key |-> k, selector |-> RaceSelector(k, v)]]
      \o <<TailBlock>>

\* json.load accepts the text: one object, opened by the head, closed by the tail
Parses(blocks) ==
    /\ Len(blocks) >= 2
    /\ blocks[1].part = "head"
    /\ blocks[Len(blocks)].part = "tail"
    /\ \A i \in 2..(Len(blocks) - 1) : blocks[i].part = "entry"

\* cache_data['mappings'] of a text that parses; of a repeated key the last entry counts
ParsedMappings(blocks) ==
    LET at == { i \in 2..(Len(blocks) - 1) : TRUE }
        keys == { blocks[i].key : i \in at }
        last(k) == CHOOSE i \in at : /\ blocks[i].key = k
                                     /\ \A j \in at : blocks[j].key = k => j <= i
    IN  [k \in keys |-> [selector |-> blocks[last(k)].selector, tab |-> 1]]

\* a write of one block at position p of the file; a gap is filled with holes
WriteAt(blocks, p, block) ==
    [i \in 1..Max2(Len(blocks), p) |->
        IF i = p THEN block
        ELSE IF i <= Len(blocks) THEN blocks[i]
        ELSE HoleBlock]

\* the form is redeployed: same layout, new control ids
RaceRedeploy ==
    /\ race_deployed < RaceDeployments
    /\ race_deployed' = race_deployed + 1
    /\ UNCHANGED <<race_pc, race_file, race_doc, race_pos, race_mapping, race_read,
                   race_products>>
    /\ UNCHANGED notRace

\* load_cached_mappings of run r, and main's branch on its result
RaceLoad(r) ==
    /\ race_pc[r] = "load"
    /\ IF ~race_file.exists
       THEN /\ race_read' = [race_read EXCEPT ![r] = "missing"]
            /\ race_pc' = [race_pc EXCEPT ![r] = "discover"]
            /\ UNCHANGED race_mapping
       ELSE IF ~Parses(race_file.blocks)
       THEN /\ race_read' = [race_read EXCEPT ![r] = "unparseable"]
            /\ race_pc' = [race_pc EXCEPT ![r] = "discover"]
            /\ UNCHANGED race_mapping
       ELSE IF Cardinality(DOMAIN ParsedMappings(race_file.blocks)) = 0
       THEN /\ race_read' = [race_read EXCEPT ![r] = "parsed"]
            /\ race_pc' = [race_pc EXCEPT ![r] = "discover"]
            /\ UNCHANGED race_mapping
       ELSE \E fatal \in BOOLEAN :
              LET cached == GenerateFormFingerprint(form, FALSE, {})
                  current == GenerateFormFingerprint(form, fatal, {})
              IN  /\ race_read' = [race_read EXCEPT ![r] = "parsed"]
                  /\ IF ValidationResult(StructureChangedIfStored(cached, current))
                     THEN /\ race_mapping' =
                               [race_mapping EXCEPT ![r] = ParsedMappings(race_file.blocks)]
                          /\ race_pc' = [race_pc EXCEPT ![r] = "ready"]
                     ELSE /\ UNCHANGED race_mapping
                          /\ race_pc' = [race_pc EXCEPT ![r] = "discover"]
    /\ UNCHANGED <<race_file, race_doc, race_pos, race_deployed, race_products>>
    /\ UNCHANGED notRace

\* discover_field_mappings of run r up to cache_data: the pass over the form as deployed
RaceDiscover(r) ==
    /\ race_pc[r] = "discover"
    /\ race_doc' = [race_doc EXCEPT ![r] = Document(race_deployed)]
    /\ race_products' = race_products \cup {ParsedMappings(Document(race_deployed))}
    /\ race_pc' = [race_pc EXCEPT ![r] = "open"]
    /\ UNCHANGED <<race_file, race_pos, race_mapping, race_read, race_deployed>>
    /\ UNCHANGED notRace

\* with open(self.cache_file, 'w') as f: the file is created or truncated
RaceOpen(r) ==
    /\ race_pc[r] = "open"
    /\ race_file' = [exists |-> TRUE, blocks |-> <<>>]
    /\ race_pos' = [race_pos EXCEPT ![r] = 0]
    /\ race_pc' = [race_pc EXCEPT ![r] = "write"]
    /\ UNCHANGED <<race_doc, race_mapping, race_read, race_deployed, race_products>>
    /\ UNCHANGED notRace

\* json.dump(cache_data, f): the next block goes to the writer's own position;
\* after the last one the file is closed and self.mapping_cache = mappings
RaceWrite(r) ==
    /\ race_pc[r] = "write"
    /\ LET p == race_pos[r] + 1
       IN  /\ race_file' = [race_file EXCEPT !.blocks = WriteAt(@, p, race_doc[r][p])]
           /\ race_pos' = [race_pos EXCEPT ![r] = p]
           /\ IF p = Len(race_doc[r])
              THEN /\ race_pc' = [race_pc EXCEPT ![r] = "ready"]
                   /\ race_mapping' =
                        [race_mapping EXCEPT ![r] = ParsedMappings(race_doc[r])]
              ELSE UNCHANGED <<race_pc, race_mapping>>
    /\ UNCHANGED <<race_doc, race_read, race_deployed, race_products>>
    /\ UNCHANGED notRace

\* fill_form_data of run r through self.mapping_cache
RaceFill(r) ==
    /\ race_pc[r] = "ready"
    /\ race_pc' = [race_pc EXCEPT ![r] = "filled"]
    /\ UNCHANGED <<race_file, race_doc, race_pos, race_mapping, race_read,
                   race_deployed, race_products>>
    /\ UNCHANGED notRace

\* run r ends; the next run of that caller starts with a fresh automation object
RaceNext(r) ==
    /\ race_pc[r] = "filled"
    /\ race_pc' = [race_pc EXCEPT ![r] = "load"]
    /\ race_doc' = [race_doc EXCEPT ![r] = <<>>]
    /\ race_pos' = [race_pos EXCEPT ![r] = 0]
    /\ race_mapping' = [race_mapping EXCEPT ![r] = EmptyMap]
    /\ race_read' = [race_read EXCEPT ![r] = "none"]
    /\ UNCHANGED <<race_file, race_deployed, race_products>>
    /\ UNCHANGED notRace

\* the runs start with no cache file, or with the one an earlier run left
InitRace ==
    /\ CacheIdle
    /\ FillIdle
    /\ ResolveIdle
    /\ OrgIdle
    /\ StagesIdle({"race"})
    /\ race_pc = [r \in Runs |-> "load"]
    /\ \E cached \in BOOLEAN :
        /\ race_file = (IF cached
                        THEN [exists |-> TRUE, blocks |-> Document(1)]
                        ELSE [exists |-> FALSE, blocks |-> <<>>])
        /\ race_products = (IF cached THEN {ParsedMappings(Document(1))} ELSE {})
    /\ race_doc = [r \in Runs |-> <<>>]
    /\ race_pos = [r \in Runs |-> 0]
    /\ race_mapping = [r \in Runs |-> EmptyMap]
    /\ race_read = [r \in Runs |-> "none"]
    /\ race_deployed = 1

NextRace ==
    \/ RaceRedeploy
    \/ \E r \in Runs : RaceLoad(r)
    \/ \E r \in Runs : RaceDiscover(r)
    \/ \E r \in Runs : RaceOpen(r)
    \/ \E r \in Runs : RaceWrite(r)
    \/ \E r \in Runs : RaceFill(r)
    \/ \E r \in Runs : RaceNext(r)

SpecRace == InitRace /\ [][NextRace]_vars

-----------------------------------------------------------------------------
(* Claims about load_cached_mappings and the run's use of its result *)

\* the run is just past load_cached_mappings: the cache file and the clock
\* are still those the load saw
AfterLoad == pc \in {"discover", "ready"} /\ ~rediscovered

\* C1: when the cache is younger than 24h and the live fingerprint fails the
\* comparison with the stored one, load_cached_mappings returns false and
\* leaves the in-memory mapping cache empty, and the run reaches "field
\* mappings ready" only through a full rediscovery.
C1_MismatchForcesRediscovery ==
    /\ (AfterLoad /\ validated
          /\ StructureChanged(cache_file.form_fingerprint, current_fingerprint))
       => (~cache_loaded /\ pc = "discover" /\ mapping_cache = EmptyMap)
    /\ (pc = "ready" /\ ~rediscovered)
       => (/\ cache_loaded
           /\ validated
           /\ ~StructureChanged(cache_file.form_fingerprint, current_fingerprint))

C1_Witness ==
    /\ pc = "ready"
    /\ rediscovered
    /\ validated
    /\ ~cache_loaded
    /\ ~fingerprint_error
    /\ current_fingerprint.tabs_found > 0

\* C3: load_cached_mappings returns false and leaves the in-memory mapping
\* cache unchanged whenever the cache file is absent, holds zero mappings,
\* or is older than 24h.
C3_AbsentEmptyOrOldIsRejected ==
    (AfterLoad /\ (\/ ~cache_file.exists
                   \/ DOMAIN cache_file.mappings = {}
                   \/ AgeHours > CacheMaxAgeHours))
    => (~cache_loaded /\ pc = "discover" /\ mapping_cache = EmptyMap)

C3_Witness ==
    /\ pc = "discover"
    /\ ~rediscovered
    /\ cache_file.exists
    /\ DOMAIN cache_file.mappings # {}
    /\ AgeHours > CacheMaxAgeHours

\* C4 (as claimed): if an error occurs while the live fingerprint is
\* recomputed during load, load_cached_mappings returns true and the
\* in-memory mapping cache equals the stored mappings.
C4_FingerprintErrorTrustsCache ==
    (AfterLoad /\ validated /\ fingerprint_error)
    => (cache_loaded /\ mapping_cache = cache_file.mappings)

-----------------------------------------------------------------------------
(* Claims about the tolerance comparison *)

WithinTabTolerance(cached_count, current_count) ==
    LET d == Abs(current_count - cached_count)
    IN d <= 5 \/ 100 * d <= 15 * cached_count

WithinTotalTolerance(cached_total, current_total) ==
    100 * Abs(current_total - cached_total) <= 10 * cached_total

PerTabWithinTolerance(cached, current) ==
    \A t \in DOMAIN cached.field_counts_per_tab :
        WithinTabTolerance(cached.field_counts_per_tab[t], CurrentCount(current, t))

ExampleCached ==
    [tabs_found |-> 3, total_field_estimate |-> 95,
     field_counts_per_tab |-> <<40, 35, 20>>]

ExampleLive ==
    [tabs_found |-> 3, total_field_estimate |-> 97,
     field_counts_per_tab |-> <<42, 35, 20>>]

Compared == pc # "load" /\ validated

\* C2 (as claimed): the comparison accepts the live fingerprint exactly when
\* the tab counts are equal, every per-tab count is within max(5, 15%) of
\* its cached count and the total is within 10% of the cached total.
C2_ToleranceAsClaimed ==
    Compared =>
      (cache_loaded <=>
         LET cached == cache_file.form_fingerprint
             current == current_fingerprint
         IN /\ current.tabs_found = cached.tabs_found
            /\ PerTabWithinTolerance(cached, current)
            /\ WithinTotalTolerance(cached.total_field_estimate,
                                    current.total_field_estimate))

\* C2 (amended): the comparison accepts the live fingerprint exactly when
\* the tab counts are equal, every tab that has a cached count has a live
\* count (0 if the live pass has none) within max(5, 15%) of it, and, if the
\* cached total is positive, the total is within 10% of the cached total;
\* cached {3, [40,35,20]} accepts live [42,35,20] and rejects 2 tabs.
C2_ToleranceAmended ==
    Compared =>
      LET cached == cache_file.form_fingerprint
          current == current_fingerprint
      IN /\ cache_loaded <=>
              /\ current.tabs_found = cached.tabs_found
              /\ PerTabWithinTolerance(cached, current)
              /\ (cached.total_field_estimate > 0
                    => WithinTotalTolerance(cached.total_field_estimate,
                                            current.total_field_estimate))
         /\ (cached = ExampleCached /\ current = ExampleLive) => cache_loaded
         /\ (cached = ExampleCached /\ current.tabs_found = 2) => ~cache_loaded

C2_Witness ==
    /\ Compared
    /\ cache_file.form_fingerprint = ExampleCached
    /\ current_fingerprint = ExampleLive
    /\ cache_loaded
    /\ mapping_cache = cache_file.mappings

-----------------------------------------------------------------------------
(* Claims about fill_form_data *)

FillKeys == Eligible(fill_data, mapping_cache)

FillCalled(k) == \E i \in DOMAIN fill_log : fill_log[i].op = "fill" /\ fill_log[i].key = k

SwitchIssued(t) == \E i \in DOMAIN fill_log : fill_log[i].op = "switch" /\ fill_log[i].tab = t

FailedSwitchTabs ==
    { t \in DOMAIN switch_outcome : switch_outcome[t] \in {"not_clicked", "zero_visible"} }

\* C5: an exception while filling one field or processing one tab never
\* aborts the pass: the affected keys are recorded as false, the remaining
\* fields and tab groups are still processed, and on return the result map
\* holds exactly one boolean for every input key with a non-empty value and
\* a known mapping.
C5_ErrorsStayLocal ==
    /\ fill_pc = "tabs" => group_index \in 1..Len(fields_by_tab)
    /\ fill_pc = "done" =>
         /\ DOMAIN results = FillKeys
         /\ \A k \in DOMAIN results : results[k] \in BOOLEAN
         /\ \A k \in FillKeys :
              (field_state[k] = "broken" \/ mapping_cache[k].tab \in tab_errors)
                => results[k] = FALSE
         /\ \A i \in DOMAIN fields_by_tab : SwitchIssued(fields_by_tab[i].tab)
         /\ \A k \in FillKeys :
              mapping_cache[k].tab \notin FailedSwitchTabs => FillCalled(k)

C5_Witness ==
    /\ fill_pc = "done"
    /\ Len(fields_by_tab) = 2
    /\ fields_by_tab[1].tab \in tab_errors
    /\ \E k, j \in FillKeys :
         /\ k < j
         /\ mapping_cache[k].tab = fields_by_tab[2].tab
         /\ mapping_cache[j].tab = fields_by_tab[2].tab
         /\ field_state[k] = "broken"
         /\ results[k] = FALSE
         /\ results[j] = TRUE
    /\ DOMAIN fill_data # FillKeys

\* C6: if the switch to a tab fails (no tab element clicked, or zero
\* controls visible afterwards), every assignment of that tab's group is
\* recorded as failed, no fill is issued for any of them, and the filler
\* goes on to the next tab group.
C6_FailedSwitchFailsGroup ==
    /\ \A k \in FillKeys :
         mapping_cache[k].tab \in FailedSwitchTabs
           => (k \in DOMAIN results /\ results[k] = FALSE /\ ~FillCalled(k))
    /\ fill_pc = "done" => \A i \in DOMAIN fields_by_tab : SwitchIssued(fields_by_tab[i].tab)

C6_Witness ==
    /\ fill_pc = "done"
    /\ Len(fields_by_tab) = 2
    /\ switch_outcome[fields_by_tab[1].tab] = "zero_visible"
    /\ switch_outcome[fields_by_tab[2].tab] = "verified"
    /\ \E k \in FillKeys : results[k] = TRUE

\* the fields the pass reached: the switch to their tab succeeded and the
\* processing of the tab did not raise
Reached(k) ==
    /\ k \in FillKeys
    /\ mapping_cache[k].tab \in DOMAIN switch_outcome
    /\ mapping_cache[k].tab \notin FailedSwitchTabs
    /\ mapping_cache[k].tab \notin tab_errors

\* C7 (as claimed): a hidden field is skipped and counts in neither the
\* numerator nor the denominator of the success rate, while a visible field
\* that throws during fill is failed and counts in the denominator only.
C7_HiddenIsSkipped ==
    fill_pc = "done" =>
      \A k \in FillKeys :
        Reached(k) =>
          /\ field_state[k] = "hidden" => k \notin DOMAIN results
          /\ field_state[k] = "broken" => (k \in DOMAIN results /\ results[k] = FALSE)

\* the fields for which a fill was attempted
Attempted == { k \in FillKeys : FillCalled(k) }

\* C8 (as claimed): after a fill pass a backup copy of the cache file is
\* written if and only if at least one field was attempted, the success rate
\* over the attempted fields is strictly below 50% and the cache file exists.
C8_BackupOverAttempted ==
    fill_pc = "done" =>
      (backup_file.exists <=>
         /\ Attempted # {}
         /\ 2 * Successful(results) < Cardinality(Attempted)
         /\ cache_file.exists)

\* C8 (amended): after a fill pass a backup copy of the cache file is
\* written if and only if the result map is non-empty, strictly fewer than
\* 50% of its entries are successes and the cache file exists (4 of 10
\* triggers it, 5 of 10 does not); the entries of a group whose tab switch
\* failed count although no fill was attempted for them.  The pass never
\* deletes or modifies the cache file.
C8_BackupIffLowSuccess ==
    /\ [](fill_pc = "done" =>
            LET total == Cardinality(DOMAIN results)
                successful == Successful(results)
            IN /\ backup_file.exists <=>
                    (total > 0 /\ 2 * successful < total /\ cache_file.exists)
               /\ backup_file.exists => backup_file.content = cache_file.mappings
               /\ (total = 10 /\ successful = 4 /\ cache_file.exists) => backup_file.exists
               /\ (total = 10 /\ successful = 5) => ~backup_file.exists)
    /\ [][cache_file' = cache_file]_vars

C8_Witness ==
    /\ fill_pc = "done"
    /\ Cardinality(DOMAIN results) = 10
    /\ Successful(results) = 4
    /\ cache_file.exists
    /\ backup_file.exists
    /\ backup_file.content = cache_file.mappings
    /\ Attempted # DOMAIN results

-----------------------------------------------------------------------------
(* Claims about the LLM tier *)

Resolved == resolve_pc \in {"mapped", "fill", "abort"}

\* the keys of the result that tiers 1-2 did not resolve
LLMContributed == DOMAIN mapped_data \ DOMAIN tier_mapped

\* C9: whatever the language model returns, every key the LLM tier
\* contributes to the resolver's result is a known remote key; returned keys
\* outside the known set are discarded.
C9_LLMKeysAreKnown ==
    Resolved =>
      /\ DOMAIN llm_mapped_data \subseteq KnownRemoteKeys(cache_file)
      /\ LLMContributed \subseteq KnownRemoteKeys(cache_file)
      /\ \A k \in DOMAIN llm_raw.fields :
           k \notin KnownRemoteKeys(cache_file) => k \notin LLMContributed

C9_Witness ==
    /\ Resolved
    /\ \E k \in DOMAIN llm_raw.fields : k \notin KnownRemoteKeys(cache_file)
    /\ \E k \in DOMAIN llm_raw.fields : k \in LLMContributed

\* C10: when the LLM tier's results are merged, every remote key already
\* resolved by tiers 1-2 keeps the value tiers 1-2 gave it; the LLM tier
\* only adds keys that were not resolved before.
C10_MergeKeepsTierResults ==
    Resolved =>
      /\ \A k \in DOMAIN tier_mapped :
           k \in DOMAIN mapped_data /\ mapped_data[k] = tier_mapped[k]
      /\ LLMContributed \subseteq DOMAIN llm_mapped_data
      /\ \A k \in LLMContributed : mapped_data[k] = llm_mapped_data[k]

C10_Witness ==
    /\ Resolved
    /\ \E k \in DOMAIN tier_mapped \cap DOMAIN llm_mapped_data :
         /\ llm_mapped_data[k] # tier_mapped[k]
         /\ mapped_data[k] = tier_mapped[k]
    /\ LLMContributed # {}

-----------------------------------------------------------------------------
(* Claims about complete_mapping *)

StepsOf(op) == { i \in DOMAIN resolve_log : resolve_log[i].op = op }

C12_ResolveTwiceSameOutput ==
    (resolve_run >= 2 /\ resolve_pc # "start") => tier_mapped = prev_call.result

C12_Witness ==
    /\ resolve_run = 2
    /\ resolve_pc # "start"
    /\ Len(prev_call.log) = 3
    /\ prev_call.log[2].ok
    /\ prev_call.result # EmptyMap
    /\ Len(resolve_log) = 1
    /\ tier_mapped = prev_call.result

\* the input keys the table lookup of the last call could use
TableInputs ==
    IF table_file.exists /\ table_file.valid
    THEN DOMAIN health_data \cap DOMAIN table_file.mappings
    ELSE {}

\* remote keys that match a known integer-field pattern
IntegerFieldKeys == {1}

\* C13 (as claimed): in the resolver's output a source value "false" that
\* targets a remote key matching a known integer-field pattern is resolved
\* to "0", "true" to "1", and a non-boolean numeric string is passed through
\* unchanged.
C13_BooleansBecomeIntegers ==
    resolve_pc # "start" =>
      \A i \in TableInputs \ MetadataKeys :
        LET r == table_file.mappings[i]
            v == health_data[i][2]
        IN r \in DOMAIN tier_mapped =>
             /\ (r \in IntegerFieldKeys /\ v = "false") => tier_mapped[r][2] = "0"
             /\ (r \in IntegerFieldKeys /\ v = "true") => tier_mapped[r][2] = "1"
             /\ v = "62" => tier_mapped[r][2] = "62"

\* C14 (as claimed): no metadata-only input key contributes an assignment to
\* the resolver's output in any tier: such keys are removed before the table
\* lookup and before the record is handed to the LLM tier.
C14_MetadataExcluded ==
    resolve_pc # "start" =>
      /\ DOMAIN tier_mapped \subseteq
           { table_file.mappings[i] : i \in TableInputs \ MetadataKeys }
      /\ llm_call.invoked => DOMAIN llm_call.input \cap MetadataKeys = {}

RunDecided == resolve_pc \in {"fill", "abort"}

\* the LLM tier is invoked only below the threshold and with a client
LLMOnlyWhenNeeded ==
    llm_call.invoked =>
      (Cardinality(DOMAIN tier_mapped) < LLMThreshold /\ openai_client)

-----------------------------------------------------------------------------
(* Claims about the org unit stage *)

NavEntries(op) == { k \in DOMAIN nav_log : nav_log[k].op = op }

NavReturned == org_pc \in {"period", "aborted"}

MissingNames == { i \in DOMAIN unit_path : unit_path[i] \notin DOMAIN org_unit_cache }

\* C16: navigate_to_org_unit_by_path returns false whenever some name of
\* the path is absent from the known location set; the select action is
\* then never performed and the resolution is not retried.
C16_MissingNameFails ==
    /\ nav_calls <= 1
    /\ (org_pc \in {"nav_loop", "period", "aborted"} /\ MissingNames # {}) =>
         NavEntries("select") = {}
    /\ (NavReturned /\ MissingNames # {}) =>
         (nav_result = "False" /\ org_pc = "aborted")

C16_Witness ==
    /\ org_pc = "aborted"
    /\ Len(unit_path) = 3
    /\ MissingNames = {3}
    /\ Len(nav_log) = 2
    /\ nav_log[1].clicked
    /\ nav_result = "False"

\* C17 (as claimed): for every path that navigate_to_org_unit_by_path
\* resolves successfully, each intermediate name's unit exposed an expand
\* toggle when it was visited.
C17_IntermediatesHaveChildren ==
    (NavReturned /\ nav_result = "True") =>
      \A k \in NavEntries("expand") : nav_log[k].toggle

\* C18: expand actions are applied only to non-terminal names and in
\* root-to-leaf order; the select action is applied at most once, only to
\* the terminal name, and only after every non-terminal name of the path
\* has been processed.
C18_ExpandThenSelectOnce ==
    org_pc \in {"nav_loop", "period", "aborted"} =>
      /\ \A k \in NavEntries("expand") :
           /\ nav_log[k].index < Len(unit_path)
           /\ nav_log[k].name = unit_path[nav_log[k].index]
      /\ \A k, m \in NavEntries("expand") :
           k < m => nav_log[k].index < nav_log[m].index
      /\ Cardinality(NavEntries("select")) <= 1
      /\ \A k \in NavEntries("select") :
           /\ nav_log[k].index = Len(unit_path)
           /\ nav_log[k].name = unit_path[Len(unit_path)]
           /\ k = Len(nav_log)
           /\ \A j \in 1..(Len(unit_path) - 1) :
                \E m \in 1..(k - 1) : nav_log[m].op = "expand" /\ nav_log[m].index = j

C18_Witness ==
    /\ org_pc = "period"
    /\ nav_result = "True"
    /\ Len(unit_path) = 3
    /\ Len(nav_log) = 3
    /\ nav_log[1].clicked
    /\ nav_log[2].clicked
    /\ nav_log[3].op = "select"

DiscoveryReturned == disc_events # {} /\ org_pc \notin {"discover", "discovering"}

\* C19: the recursive discovery terminates for every tree, also a malformed
\* one in which a unit reappears among its own descendants, because it
\* never descends past depth max_depth (default 6): no unit deeper than
\* max_depth is expanded or recorded.
C19_DiscoveryBoundedByDepth ==
    /\ [](/\ \A e \in disc_events :
               e.op \in {"visit", "record", "expand"} => e.depth <= DefaultMaxDepth
          /\ \A k \in DOMAIN disc_stack : disc_stack[k].depth <= DefaultMaxDepth + 1)
    /\ (org_pc = "discovering") ~> (org_pc # "discovering")

C19_Witness ==
    /\ org_tree = CycleTree
    /\ DiscoveryReturned
    /\ \E e \in disc_events : e.op = "cut" /\ e.depth = DefaultMaxDepth + 1
    /\ \E e \in disc_events : e.op = "visit" /\ e.depth = DefaultMaxDepth
    /\ \E e \in disc_events : e.op = "record" /\ e.depth = DefaultMaxDepth

\* C20 (as claimed): after discover_organizational_units completes, every
\* unit visited during the expansion, expandable or not, is recorded: the
\* name-keyed mapping holds an entry whose id is that unit's id.  Stated
\* for runs in which no page operation raised and every unit has a name.
C20_EveryVisitedUnitRecorded ==
    (/\ DiscoveryReturned
     /\ org_unit_cache = org_mapping
     /\ org_errors = 0
     /\ \A u \in UnitsOf(org_tree) : org_tree.name[u] # 0) =>
      \A e \in disc_events :
        e.op = "visit" =>
          \E nm \in DOMAIN org_unit_cache : org_unit_cache[nm].id = e.unit

-----------------------------------------------------------------------------
(* Claims about the cache round trip *)

\* the stored fingerprint is the one an undisturbed pass over the form as
\* deployed now computes
StoredFingerprintIntact ==
    cache_file.form_fingerprint = GenerateFormFingerprint(form, FALSE, {})

\* C21 (as claimed): a discovery result that was saved and is loaded while
\* younger than 24h, on an unchanged form, yields an in-memory mapping equal
\* to the one saved.
C21_RoundTripYieldsSaved ==
    (AfterLoad /\ cache_file.exists /\ AgeHours < CacheMaxAgeHours)
    => mapping_cache = cache_file.mappings

\* the round trip of the mapping cache when no page error disturbed either
\* fingerprint
C21_RoundTripUndisturbed ==
    (AfterLoad /\ cache_file.exists /\ AgeHours < CacheMaxAgeHours
       /\ StoredFingerprintIntact /\ ~fingerprint_error)
    => mapping_cache = cache_file.mappings

\* the round trip of the org unit cache: once a usable file has been loaded
\* or a discovery has saved its result, memory and file hold one mapping
C21_OrgRoundTrip ==
    (OrgCacheUsable(org_cache_file) /\ org_pc \notin {"load", "discover", "discovering"})
    => org_unit_cache = org_cache_file.org_units

-----------------------------------------------------------------------------
(* Claims about the discovery pass *)

PassDone == pass_pc = "done"

\* the tabs whose processing ran through
ProcessedTabs == (1..TabsToProcess(form)) \ raised_tabs

MetAt(k, tabs) ==
    { m \in tabs \X DOMAIN page_controls :
        /\ Recordable(page_controls[m[2]], m[1], landmarks)
        /\ FieldName(page_controls[m[2]].dataelement, page_controls[m[2]].optioncombo) = k }

\* the last place of a set of places, by tab and then by document order
LastPlace(places) ==
    CHOOSE m \in places :
        \A o \in places : o[1] < m[1] \/ (o[1] = m[1] /\ o[2] <= m[2])

\* what the tabs in `tabs` hold: per name the control met last
FoundOnTabs(tabs) ==
    [k \in { FieldName(page_controls[i].dataelement, page_controls[i].optioncombo) :
               i \in { j \in DOMAIN page_controls : \E t \in tabs :
                         Recordable(page_controls[j], t, landmarks) } } |->
        LET m == LastPlace(MetAt(k, tabs))
        IN [selector |-> page_controls[m[2]].id, tab |-> m[1]]]

\* the landmarks were not seen in time, or some tab raised
PassDisturbed ==
    /\ pass_pc \in {"tabs", "save", "done"}
    /\ (landmarks # "seen" \/ raised_tabs # {})

-----------------------------------------------------------------------------
(* Claims about a run as a whole: abort, login, cleanup, conflict *)

\* the calls that discover, fill, validate or submit the remote form
FormActions ==
    {"discover_field_mappings", "fill_form_data", "validate_form_data",
     "fill", "save_person", "fill_event", "submit"}

\* the calls that authenticate or address the location
GateActions == {"login", "navigate_to_org_unit_by_path", "navigate"}

LoginOrPathFailed == run_failure \in GateActions

\* no form action follows a failed login or a failed location step in the log
NothingAfterFailure ==
    \A i \in 1..Len(run_log) :
        (run_log[i].op \in GateActions /\ ~run_log[i].ok)
            => \A j \in (i + 1)..Len(run_log) : run_log[j].op \notin FormActions

\* the caller is handed an exception or a result that says failure
FailureReported ==
    \/ run_outcome = "raised"
    \/ run_outcome = "result" /\ ~run_result.success

\* C24: if login fails or the location path cannot be resolved, the run is
\* aborted: no field discovery, fill, validation or submit is issued to the
\* remote form afterwards, and the failure is reported to the caller.
C24_AbortedAndReported ==
    (run_pc = "returned" /\ LoginOrPathFailed)
        => (NothingAfterFailure /\ FailureReported)

\* the first half of C24 alone: the run issues nothing to the form afterwards
C24_AbortedOnly == LoginOrPathFailed => NothingAfterFailure

\* the second half of C24 outside main: the service and the tracker runs report
C24_ReportedOutsideMain ==
    (run_pc = "returned" /\ LoginOrPathFailed /\ run_variant # "main") => FailureReported

\* C25: login attempts authentication up to maxRetries times: a failed attempt
\* is followed by another one until one succeeds or maxRetries attempts have
\* been made, so with maxRetries of two or more a run fails at login only
\* after at least two attempts.
C25_LoginFailsOnlyAfterRetry == run_failure = "login" => login_attempts >= 2

\* C26: on every exit path of a run after the browser has been launched the
\* browser is closed before the run returns to its caller.
C26_BrowserClosedOnReturn == run_pc = "returned" => browser # "open"

\* the runs of main and of the service close the browser on every path
C26_DHISRunsClose ==
    (run_pc = "returned" /\ run_variant \in DHISVariants) => browser # "open"

SubmitCount == Cardinality({i \in 1..Len(run_log) : run_log[i].op = "submit"})

\* C29: in the birth and the death variant, when the API answers the
\* submission with a 409 conflict, the run's result has success = false and
\* carries status_code 409 and the API response, even if the page shows a
\* success indicator; the submission is not retried.
C29_ConflictIsFailure ==
    (run_pc \in {"exit", "returned"} /\ submit_seen.status_code = StatusConflict)
        => /\ run_result.kind = "result"
           /\ ~run_result.success
           /\ run_result.status_code = StatusConflict
           /\ run_result.api_response = submit_seen.api_response
           /\ SubmitCount = 1

C29_Witness ==
    /\ run_variant = "death"
    /\ run_pc = "returned"
    /\ submit_seen =
         [status_code |-> StatusConflict, api_response |-> "body", indicator |-> TRUE]
    /\ run_result.kind = "result"
    /\ run_outcome = "result"
-----------------------------------------------------------------------------
(* Claims about a fill pass whose assignments all sit on Page1 *)

Assigned == Eligible(fill_data, mapping_cache)

\* there are assignments and all of them belong to Page1
OnlyPage1 == Assigned # {} /\ \A k \in Assigned : mapping_cache[k].tab = 1

\* every assigned control is visible and accepts input
AllFillable == \A k \in Assigned : field_state[k] = "ok"

\* where the form has tabs, clicking one shows its controls, and no wait raised
PageBehaves ==
    /\ tab_errors = {}
    /\ \A t \in DOMAIN switch_outcome :
          form.tabs > 0 => switch_outcome[t] \in {"verified", "verify_raised"}

\* the calls of _switch_to_tab("Page1") the pass made
SwitchesToPage1 ==
    Cardinality({ i \in 1..Len(fill_log) :
                    fill_log[i].op \in {"reset", "switch"} /\ fill_log[i].tab = 1 })

AllTrue == DOMAIN results = Assigned /\ \A k \in Assigned : results[k]

\* C27: when all resolved assignments belong to Page1 and every control is
\* visible and fillable, a fill pass switches to that tab exactly once and
\* returns a result map with exactly those keys, all true.
C27_OneSwitchAllTrue ==
    (fill_pc = "done" /\ OnlyPage1 /\ AllFillable /\ PageBehaves)
        => (SwitchesToPage1 = 1 /\ AllTrue)

\* what the pass does on a form that has tabs: the reset and the one group
\* switch, and every key true
C27_TabbedFormTwoSwitches ==
    (fill_pc = "done" /\ OnlyPage1 /\ AllFillable /\ PageBehaves /\ form.tabs > 0)
        => (SwitchesToPage1 = 2 /\ AllTrue)

\* C30: for a form without tab elements, every field that discovery recorded
\* under Page1 and that has a value to write is attempted by the fill pass;
\* the filler does not mark it failed because no tab could be switched to.
C30_SinglePageFieldsAttempted ==
    (fill_pc = "done" /\ form.tabs = 0)
        => \A k \in Assigned : mapping_cache[k].tab = 1 => k \in Attempted
-----------------------------------------------------------------------------
(* Claims about runs that share the cache file *)

\* run r is past the mapping stage: it fills, or has filled, through its mapping
Filling(r) == race_pc[r] \in {"ready", "filled"}

\* run r ran discover_field_mappings
Rediscovered(r) == race_doc[r] # <<>>

\* a load that found the file missing, empty or cut short returned False
UnreadableCacheRediscovers ==
    \A r \in Runs :
        (race_read[r] \in {"missing", "unparseable"} /\ Filling(r)) => Rediscovered(r)

\* a run fills only through a mapping that some discovery produced as a whole
FillsThroughProducts == \A r \in Runs : Filling(r) => race_mapping[r] \in race_products

\* C28: when two runs interleave their reads and writes of the same cache
\* file, a run whose load reads a missing, empty or partially written cache
\* gets false and rediscovers, and in no interleaving does a run fill the
\* form through a mapping that is not a complete mapping produced by some
\* run's discovery.
C28_SharedCacheIsBenign == UnreadableCacheRediscovers /\ FillsThroughProducts

\* the first half of C28 alone
C28_UnreadableRediscovers == UnreadableCacheRediscovers

\* the second half of C28 while the form is not redeployed between the runs
C28_SameDeploymentIsBenign == race_deployed = 1 => FillsThroughProducts
-----------------------------------------------------------------------------
(* Claims about the table file, empty values and the order of a fill pass *)

\* the table file cannot be used as it is: missing, unreadable or without mappings
TableUnusable(tfile) == ~tfile.exists \/ ~tfile.valid \/ DOMAIN tfile.mappings = {}

\* C31: complete_mapping never replaces an existing non-empty generated table
\* file: the file is rewritten by regeneration only when it is missing,
\* unreadable or contains no mappings, not merely because the current input
\* record has no key in the table.
C31_TableKeptWhenUsable ==
    [][table_file' # table_file => TableUnusable(table_file)]_vars

\* what the code does: the table is rewritten whenever the lookup comes back empty
C31_RewrittenOnEmptyLookup ==
    [][table_file' # table_file
         => DOMAIN TryCompleteMapping(table_file, health_data) = {}]_vars

(* The hand-over from the resolver to the filler: main passes the resolver's
   result to fill_form_data *)

\* records whose entries are null, empty or a count
HandOverValues == {NoneValue, EmptyString, <<"int", "5">>}

HandOverRecords == [1..MaxInputKeys -> HandOverValues]

GeneratedTable ==
    [exists |-> TRUE, valid |-> TRUE, mappings |-> [i \in 1..MaxInputKeys |-> i]]

\* the discovered fields of a tabbed form
HandOverCache ==
    [exists |-> TRUE, timestamp |-> 0,
     mappings |-> [k \in 1..MaxRemoteKeys |-> [selector |-> k, tab |-> TabOfKey(k, FALSE)]],
     form_fingerprint |-> GenerateFormFingerprint(FillForm(FALSE), FALSE, {})]

\* results = await automation.fill_form_data(mapped_data)
FillFormDataCall ==
    /\ resolve_pc = "fill"
    /\ fill_pc = "idle"
    /\ fill_pc' = "start"
    /\ fill_data' = mapped_data
    /\ field_state' \in [DOMAIN mapped_data -> {"ok", "broken"}]
    /\ UNCHANGED <<fields_by_tab, group_index, results, fill_log, switch_outcome,
                   tab_errors, backup_file>>
    /\ UNCHANGED <<cacheVars, resolveVars, orgVars, stageVars>>

InitHandOver ==
    /\ health_data \in HandOverRecords
    /\ table_file = GeneratedTable
    /\ cache_file = HandOverCache
    /\ openai_client \in BOOLEAN
    /\ resolve_pc = "start"
    /\ tier_mapped = EmptyMap
    /\ llm_raw = LLMNotCalled
    /\ llm_call = NoLLMCall
    /\ llm_mapped_data = EmptyMap
    /\ mapped_data = EmptyMap
    /\ resolve_log = <<>>
    /\ resolve_run = 1
    /\ prev_call = NoCall
    /\ mapping_cache = cache_file.mappings
    /\ form = FillForm(FALSE)
    /\ now = 0
    /\ pc = "ready"
    /\ cache_loaded = TRUE
    /\ current_fingerprint = ZeroFingerprint
    /\ fingerprint_error = FALSE
    /\ validated = FALSE
    /\ rediscovered = FALSE
    /\ FillIdle
    /\ OrgIdle
    /\ StagesIdle({})

NextHandOver ==
    \/ CompleteMapping
    \/ LLMFallback
    \/ SkipLLM
    \/ ProceedToFill
    \/ FillFormDataCall
    \/ FillStart
    \/ FillTabGroup
    \/ FillFinish

SpecHandOver == InitHandOver /\ [][NextHandOver]_vars

\* a fill action was issued that writes str() of input entry i
WrittenFrom(i) ==
    /\ i \in DOMAIN table_file.mappings
    /\ \E n \in DOMAIN fill_log :
         /\ fill_log[n].op = "fill"
         /\ fill_log[n].key = table_file.mappings[i]
         /\ fill_data[fill_log[n].key] = Str(health_data[i])

\* C32: an input entry whose value is null or empty is never written into
\* the remote form: on every path from the resolver to the filler no fill
\* action is issued for it.
C32_NullOrEmptyNeverWritten ==
    \A i \in DOMAIN health_data \ MetadataKeys :
        ~HasValue(health_data[i]) => ~WrittenFrom(i)

\* the empty string is dropped by the filler; the null is what gets written
C32_EmptyNeverWritten ==
    \A i \in DOMAIN health_data \ MetadataKeys :
        health_data[i] = EmptyString => ~WrittenFrom(i)

C32_EmptyDropped ==
    /\ fill_pc = "done"
    /\ \E i, j \in DOMAIN health_data :
         health_data[i] = EmptyString /\ HasValue(health_data[j]) /\ WrittenFrom(j)

\* the positions of the fill pass's log at which a group's tab switch was issued
SwitchesTo(tab) ==
    { m \in DOMAIN fill_log : fill_log[m].op = "switch" /\ fill_log[m].tab = tab }

FillsOn(tab) ==
    { n \in DOMAIN fill_log : fill_log[n].op = "fill" /\ fill_log[n].tab = tab }

\* C33: in a fill pass, a fill is issued on a field only after a switch to
\* the tab that owns the field was issued and reported success, and before
\* any switch to another tab; the fills of one tab group are contiguous and
\* each tab group is visited exactly once.
C33_FillsFollowOwnTabSwitch ==
    /\ \A n \in DOMAIN fill_log :
         fill_log[n].op = "fill" =>
           \E m \in 1..(n - 1) :
             /\ fill_log[m].op = "switch"
             /\ fill_log[m].ok
             /\ fill_log[m].tab = mapping_cache[fill_log[n].key].tab
             /\ \A j \in (m + 1)..(n - 1) :
                  fill_log[j].op = "fill" /\ fill_log[j].tab = fill_log[m].tab
    /\ \A g \in DOMAIN fields_by_tab :
         Cardinality(SwitchesTo(fields_by_tab[g].tab)) =
             IF g < group_index THEN 1 ELSE 0

\* a finished pass over two tabs, several fills on each
C33_Witness ==
    /\ fill_pc = "done"
    /\ \E t1, t2 \in 1..FillTabs :
         /\ t1 # t2
         /\ Cardinality(FillsOn(t1)) >= 2
         /\ Cardinality(FillsOn(t2)) >= 2

\* the load has returned on a file that exists, holds mappings and is
\* younger than 24 hours
LoadedFresh ==
    /\ pc \in {"discover", "ready"}
    /\ ~rediscovered
    /\ cache_file.exists
    /\ DOMAIN cache_file.mappings # {}
    /\ CacheIsRecent(AgeHours)

\* C34: load_cached_mappings never accepts a cache younger than 24h without
\* a structural comparison: if the stored fingerprint is missing or empty
\* (for example because fingerprint generation failed at discovery time),
\* the load returns false.
C34_NoStoredFingerprintRejected ==
    (LoadedFresh /\ cache_file.form_fingerprint = NoFingerprint) => ~cache_loaded

\* the same for the fingerprint a failed generation stores
C34_ZeroFingerprintRejected ==
    (LoadedFresh /\ cache_file.form_fingerprint = ZeroFingerprint) => ~cache_loaded

\* what the code does: a stored fingerprint that is present decides, an
\* absent one accepts
C34_AcceptedIffNotChanged ==
    LoadedFresh =>
        (cache_loaded <=>
            (\/ cache_file.form_fingerprint = NoFingerprint
             \/ ~StructureChanged(cache_file.form_fingerprint, current_fingerprint)))

-----------------------------------------------------------------------------
(* The field loops of the birth and death report forms: fill_event_form
   (birth), fill_person_profile and fill_event_fields (death).  The page
   is the environment: each fill action on it completes or raises. *)

FieldTypes == {"text", "select", "radio", "org_unit"}

\* a mapped field and the record's value for it; "" stands for a value
\* that is absent or empty
ReportFields == [type : FieldTypes, value : {"", "x"}]

CountFunctions == {"fill_event_form", "fill_person_profile", "fill_event_fields"}

\* the types for which the function has a branch
HandledTypes(function) ==
    IF function = "fill_person_profile" THEN {"text", "select"}
    ELSE {"text", "select", "radio"}

\* the function calls fill_text_field, fill_select_field or fill_radio_field
IssuesFill(function, field) ==
    field.value # "" /\ field.type \in HandledTypes(function)

\* one iteration of the loop over the mappings: fill_text_field,
\* fill_select_field and fill_radio_field catch what the page raises and
\* return None, the increment of filled_count follows the call
FillNextField ==
    /\ count_pc = "loop"
    /\ count_index <= Len(count_fields)
    /\ LET field == count_fields[count_index]
       IN IF IssuesFill(count_function, field)
          THEN \E raised \in BOOLEAN :
                 /\ fills_issued' = fills_issued + 1
                 /\ fills_completed' = IF raised THEN fills_completed
                                       ELSE fills_completed + 1
                 /\ filled_count' = filled_count + 1
          ELSE UNCHANGED <<fills_issued, fills_completed, filled_count>>
    /\ count_index' = count_index + 1
    /\ UNCHANGED <<count_pc, count_function, count_fields>>
    /\ UNCHANGED notCount

\* return filled_count; automate copies it into the result
ReturnFilledCount ==
    /\ count_pc = "loop"
    /\ count_index > Len(count_fields)
    /\ count_pc' = "returned"
    /\ UNCHANGED <<count_function, count_fields, count_index, filled_count,
                   fills_issued, fills_completed>>
    /\ UNCHANGED notCount

InitCount ==
    /\ count_pc = "loop"
    /\ count_function \in CountFunctions
    /\ count_fields \in UNION { [1..n -> ReportFields] : n \in 0..MaxReportFields }
    /\ count_index = 1
    /\ filled_count = 0
    /\ fills_issued = 0
    /\ fills_completed = 0
    /\ CacheIdle
    /\ FillIdle
    /\ ResolveIdle
    /\ OrgIdle
    /\ StagesIdle({"count"})

NextCount ==
    \/ FillNextField
    \/ ReturnFilledCount

SpecCount == InitCount /\ [][NextCount]_vars

\* C35: in the birth and death automations the reported filled-field count
\* equals the number of fields whose fill action completed without error:
\* a field whose fill action raised is not counted.
C35_CountIsCompletedFills ==
    count_pc = "returned" => filled_count = fills_completed

\* what the code counts: the fill actions issued
C35_CountIsIssuedFills ==
    count_pc = "returned" => filled_count = fills_issued

-----------------------------------------------------------------------------
(* The command line of the death report: main parses the flags and calls
   run_automation, which runs automate inside `async with` and hands its
   result back; main exits with a status made from what it got *)

\* run_automation up to the `async with`: the registries, the data file, its
\* _meta section, the program and unit ids and the credentials; any of them
\* missing returns False.  automate is then called with program_id,
\* org_unit_id and data only.
CliRunAutomation ==
    /\ cli_pc = "start"
    /\ run_pc = "idle"
    /\ \E prepared \in BOOLEAN :
        IF prepared
        THEN /\ cli_pc' = "automation"
             /\ run_pc' = "enter"
             /\ complete_event' = TRUE
             /\ UNCHANGED cli_return
        ELSE /\ cli_pc' = "returned"
             /\ cli_return' = "False"
             /\ UNCHANGED <<run_pc, complete_event>>
    /\ UNCHANGED <<no_complete, exit_status>>
    /\ UNCHANGED <<run_variant, browser, browser_page, run_log, run_failure, run_result,
                   run_outcome, login_attempts, submit_seen>>
    /\ UNCHANGED notCli

\* `return result` on both branches of result.get("success"); an exception
\* of the block or of __aenter__/__aexit__ returns False
CliReturn ==
    /\ cli_pc = "automation"
    /\ run_pc = "returned"
    /\ cli_return' = IF run_outcome = "raised" THEN "False" ELSE "result"
    /\ cli_pc' = "returned"
    /\ UNCHANGED <<no_complete, complete_event, exit_status>>
    /\ UNCHANGED runVars
    /\ UNCHANGED notCli

\* sys.exit(0 if success else 1): the dictionary automate returned is not
\* empty and therefore true
ExitStatus(returned) == IF returned # "False" THEN "0" ELSE "1"

\* main: success = asyncio.run(run_automation(...)); sys.exit(...)
CliExit ==
    /\ cli_pc = "returned"
    /\ exit_status' = ExitStatus(cli_return)
    /\ cli_pc' = "exited"
    /\ UNCHANGED <<no_complete, complete_event, cli_return>>
    /\ UNCHANGED runVars
    /\ UNCHANGED notCli

InitCli ==
    /\ CacheIdle
    /\ FillIdle
    /\ ResolveIdle
    /\ OrgIdle
    /\ StagesIdle({"run", "cli"})
    /\ run_variant = "death"
    /\ run_pc = "idle"
    /\ browser = "none"
    /\ browser_page = "none"
    /\ run_log = <<>>
    /\ run_failure = "none"
    /\ run_result = NoResult
    /\ run_outcome = "running"
    /\ login_attempts = 0
    /\ submit_seen = NoSubmission
    /\ cli_pc = "start"
    /\ no_complete \in BOOLEAN
    /\ complete_event = TRUE
    /\ cli_return = "none"
    /\ exit_status = "none"

NextCli ==
    \/ CliRunAutomation
    \/ ReportEnter
    \/ ReportLoadMappings
    \/ ReportLogin
    \/ ReportNavigate
    \/ ReportFill
    \/ ReportSavePerson
    \/ ReportFillEvent
    \/ ReportSubmit
    \/ ReportExcept
    \/ ReportExit
    \/ CliReturn
    \/ CliExit

SpecCli == InitCli /\ [][NextCli]_vars

\* C36: the death-report command line exits with status 0 only if the
\* automation result reports success; whenever run_automation ends with a
\* result whose success is false, the process exits with a non-zero status.
C36_ExitZeroOnlyOnSuccess ==
    exit_status = "0" => (cli_return = "result" /\ run_result.success)

\* what holds: status 1 exactly when run_automation returned False
C36_ExitOneIffFalseReturned ==
    cli_pc = "exited" => (exit_status = "1" <=> cli_return = "False")

\* the mark-as-complete action was issued
MarkCompleteIssued ==
    \E n \in DOMAIN run_log : run_log[n].op = "mark_complete"

SaveIssued ==
    \E n \in DOMAIN run_log : run_log[n].op = "submit"

\* C37: in a death-report run with complete_event = false (the flag
\* --no-complete), the event is saved without the mark-as-complete action
\* being issued.
C37_NoCompleteSavesDraft ==
    (no_complete /\ SaveIssued) => ~MarkCompleteIssued

\* what holds: the flag does not reach automate
C37_FlagIgnored ==
    SaveIssued => (MarkCompleteIssued <=> complete_event)

-----------------------------------------------------------------------------
(* The PDF upload endpoint process_pdf_and_fill_dhis: the record is created,
   the PDF is processed, the readiness of the automation is checked and
   DHISAutomationService.fill_dhis_form runs the automation *)

StatusBadRequest == "400"

\* the request carries no file or a file that is no PDF: 400, no record
UploadRequest ==
    /\ upload_pc = "request"
    /\ \E request \in {"pdf", "no_file", "not_pdf"} :
        IF request = "pdf"
        THEN /\ upload_status' = "processing"
             /\ upload_pc' = "start"
             /\ UNCHANGED response
        ELSE /\ response' = [code |-> StatusBadRequest, status |-> "none",
                             error |-> request]
             /\ upload_pc' = "done"
             /\ UNCHANGED upload_status
    /\ UNCHANGED dhis_result
    /\ UNCHANGED runVars
    /\ UNCHANGED notUpload

\* the view's failure branches: the record is marked failed, the answer is 500
UploadFails(error) ==
    /\ upload_status' = "failed"
    /\ response' = [code |-> StatusServerError, status |-> "none", error |-> error]
    /\ upload_pc' = "done"

\* step 1: processor.process_pdf(pdf_path)
UploadProcessPdf ==
    /\ upload_pc = "start"
    /\ \E extracted \in BOOLEAN :
        IF extracted
        THEN /\ upload_status' = "compared"
             /\ upload_pc' = "ready_check"
             /\ UNCHANGED response
        ELSE UploadFails("ocr")
    /\ UNCHANGED dhis_result
    /\ UNCHANGED runVars
    /\ UNCHANGED notUpload

\* step 2: get_automation_status(); not ready: the class was not imported or
\* an environment variable is missing
UploadCheckReady ==
    /\ upload_pc = "ready_check"
    /\ \E ready \in BOOLEAN :
        IF ready
        THEN /\ upload_status' = "dhis_processing"
             /\ upload_pc' = "fill"
             /\ UNCHANGED response
        ELSE UploadFails("not_ready")
    /\ UNCHANGED dhis_result
    /\ UNCHANGED runVars
    /\ UNCHANGED notUpload

\* fill_dhis_form up to the automation: _save_temp_data raises or the
\* temporary file is written and _run_dhis_automation starts the run
UploadFillDhisForm ==
    /\ upload_pc = "fill"
    /\ run_pc = "idle"
    /\ \E saved \in BOOLEAN :
        IF saved
        THEN /\ upload_pc' = "automation"
             /\ run_pc' = RunStages("service")[1]
             /\ UNCHANGED <<upload_status, response>>
        ELSE /\ UploadFails("form_filling")
             /\ UNCHANGED run_pc
    /\ UNCHANGED dhis_result
    /\ UNCHANGED <<run_variant, browser, browser_page, run_log, run_failure, run_result,
                   run_outcome, login_attempts, submit_seen>>
    /\ UNCHANGED notUpload

\* _run_dhis_automation: what the automation returned, or a dictionary with
\* status "failed" for whatever it raised
RunDhisAutomation(outcome, result) ==
    IF outcome = "raised" THEN "failed" ELSE result.status

\* fill_dhis_form removes the temporary file and returns the dictionary;
\* the view stores it, marks the record completed and answers 200
UploadFinish ==
    /\ upload_pc = "automation"
    /\ run_pc = "returned"
    /\ LET returned == RunDhisAutomation(run_outcome, run_result)
       IN /\ dhis_result' = returned
          /\ upload_status' = "completed"
          /\ response' = [code |-> StatusOK, status |-> "completed", error |-> "none"]
          /\ upload_pc' = "done"
    /\ UNCHANGED runVars
    /\ UNCHANGED notUpload

InitUpload ==
    /\ CacheIdle
    /\ FillIdle
    /\ ResolveIdle
    /\ OrgIdle
    /\ StagesIdle({"run", "upload"})
    /\ run_variant = "service"
    /\ run_pc = "idle"
    /\ browser = "none"
    /\ browser_page = "none"
    /\ run_log = <<>>
    /\ run_failure = "none"
    /\ run_result = NoResult
    /\ run_outcome = "running"
    /\ login_attempts = 0
    /\ submit_seen = NoSubmission
    /\ upload_pc = "request"
    /\ upload_status = "none"
    /\ dhis_result = "none"
    /\ response = NoResponse

NextUpload ==
    \/ UploadRequest
    \/ UploadProcessPdf
    \/ UploadCheckReady
    \/ UploadFillDhisForm
    \/ RunInitialize
    \/ RunLogin
    \/ RunNavigateToDataEntry
    \/ RunOrgUnits
    \/ RunNavigateByPath
    \/ RunSelectPeriod
    \/ RunFieldMappings
    \/ RunLoadData
    \/ RunCompleteMapping
    \/ RunFill
    \/ RunValidate
    \/ RunCleanup
    \/ UploadFinish

SpecUpload == InitUpload /\ [][NextUpload]_vars

\* the automation ended in a failure: a stage raised
AutomationFailed == run_pc = "returned" /\ run_outcome = "raised"

\* C38: a PDF upload record reaches status 'completed' (and the endpoint
\* answers 200 with status 'completed') only if the DHIS automation did not
\* fail; every automation failure, including a failed login or an
\* unresolvable path, leaves the record 'failed'.
C38_CompletedOnlyWithoutFailure ==
    /\ (upload_status = "completed" \/ response.code = StatusOK) => ~AutomationFailed
    /\ (upload_pc = "done" /\ AutomationFailed) => upload_status = "failed"

\* what holds: the record is completed whenever the automation was started
\* and came back, and the failure is only visible inside the answer
C38_CompletedWheneverStarted ==
    upload_pc = "done" =>
        /\ upload_status = "completed" <=> run_pc = "returned"
        /\ AutomationFailed => dhis_result = "failed"

-----------------------------------------------------------------------------
(* The offline generator of the table file (create_field_mapping.py):
   find_best_match scores every remote key against the components of an
   input field name, create_comprehensive_mapping accepts the best one at a
   confidence of 0.4 or more.  Scores are in thousandths.  A remote key is
   "Category||details"; its category text is summed up as the category and
   the marker word it contains, its details are a single word or
   "age part, gender part". *)

AgeGroups == {"15 to 49 Years", "5 to 14 Years"}

\* extract_components(health_field), with the destination word the name holds
HealthFields ==
    [category : {"outpatients", "referrals"},
     subcategory : {"", "new", "emergency"},
     age_group : {"", "15 to 49 Years"},
     gender : {"", "M", "F"},
     destination : {"", "hospital"}]

\* dhis_details: one word, or what rsplit(', ', 1) gives
DetailChoices ==
    [kind : {"single"}, text : {"default", "Hospital"}]
    \cup [kind : {"pair"}, age_part : AgeGroups,
          gender_part : {"M", "F", "Hospital Female"}]

RemoteKeys ==
    [category : {"Outpatients", "Referrals"},
     marker : {"", "New", "Emergency"},
     details : DetailChoices]

\* similarity_score * 1000 for the pairs of names compared
FuzzyLevels == {0, 600, 1000}

\* the word dhis_category must contain for the category of the input field
CategoryWord(category) ==
    IF category = "outpatients" THEN "Outpatients" ELSE "Referrals"

\* value in dhis_details, for destinations = {..., 'hospital': 'Hospital', ...}
MentionsDestination(details, destination) ==
    /\ destination = "hospital"
    /\ \/ details.kind = "single" /\ details.text = "Hospital"
       \/ details.kind = "pair" /\ details.gender_part = "Hospital Female"

\* the category branches: the factors and their scores
CategoryFactors(h, d) ==
    IF d.category # CategoryWord(h.category) THEN {}
    ELSE {"category"}
         \cup (IF h.category = "outpatients" /\ h.subcategory = "new" /\ d.marker = "New"
               THEN {"subcategory"} ELSE {})
         \cup (IF h.category = "referrals" /\ h.subcategory = "emergency"
                  /\ d.marker = "Emergency"
               THEN {"type"} ELSE {})
         \cup (IF h.category = "referrals" /\ MentionsDestination(d.details, h.destination)
               THEN {"location"} ELSE {})

\* the age and gender of the details, or the default detail
DetailFactors(h, d) ==
    IF d.details.kind = "pair"
    THEN (IF h.age_group # "" /\ h.age_group = d.details.age_part
          THEN {"age_group"} ELSE {})
         \cup (IF h.gender # "" /\ h.gender = d.details.gender_part
               THEN {"gender"} ELSE {})
    ELSE IF d.details.text = "default" /\ h.age_group = "" /\ h.gender = ""
    THEN {"default"} ELSE {}

\* elif health_components['gender'] and health_components['gender'] != gender_part
GenderMismatch(h, d) ==
    d.details.kind = "pair" /\ h.gender # "" /\ h.gender # d.details.gender_part

FactorScore(factor) ==
    CASE factor = "category" -> CategoryBonus
      [] factor = "subcategory" -> SubcategoryBonus
      [] factor = "type" -> SubcategoryBonus
      [] factor = "location" -> LocationBonus
      [] factor = "age_group" -> AgeGroupBonus
      [] factor = "gender" -> GenderBonus
      [] OTHER -> DefaultBonus

RECURSIVE SumScores(_)
SumScores(factors) ==
    IF factors = {} THEN 0
    ELSE LET f == CHOOSE x \in factors : TRUE
         IN FactorScore(f) + SumScores(factors \ {f})

\* the score of one remote key, fuzzy being similarity_score * 1000
Score(h, d, fuzzy) ==
    SumScores(CategoryFactors(h, d) \cup DetailFactors(h, d))
    - (IF GenderMismatch(h, d) THEN GenderPenalty ELSE 0)
    + (fuzzy * FuzzyWeight) \div 1000

\* one iteration of "for dhis_field in dhis_fields"
FindBestMatchStep ==
    /\ match_pc = "loop"
    /\ candidates_seen < MaxCandidates
    /\ \E d \in RemoteKeys, fuzzy \in FuzzyLevels :
        LET score == Score(health_field, d, fuzzy)
        IN IF score > best_score
           THEN /\ best_score' = score
                /\ best_match' = d
                /\ best_factors' = CategoryFactors(health_field, d)
                                     \cup DetailFactors(health_field, d)
           ELSE UNCHANGED <<best_score, best_match, best_factors>>
    /\ candidates_seen' = candidates_seen + 1
    /\ UNCHANGED <<match_pc, health_field, entry_mapped>>
    /\ UNCHANGED notMatch

\* return best_match, best_score, matching_factors
FindBestMatchReturn ==
    /\ match_pc = "loop"
    /\ candidates_seen >= 1
    /\ match_pc' = "matched"
    /\ UNCHANGED <<health_field, candidates_seen, best_match, best_score, best_factors,
                   entry_mapped>>
    /\ UNCHANGED notMatch

\* if best_match and confidence_score >= 0.4
Accepted(match, confidence_score) ==
    match # NoMatch /\ confidence_score >= MinConfidence

\* create_comprehensive_mapping: the entry written for the input field
CreateMappingEntry ==
    /\ match_pc = "matched"
    /\ entry_mapped' = Accepted(best_match, best_score)
    /\ match_pc' = "done"
    /\ UNCHANGED <<health_field, candidates_seen, best_match, best_score, best_factors>>
    /\ UNCHANGED notMatch

InitMatch ==
    /\ CacheIdle
    /\ FillIdle
    /\ ResolveIdle
    /\ OrgIdle
    /\ StagesIdle({"match"})
    /\ match_pc = "loop"
    /\ health_field \in HealthFields
    /\ candidates_seen = 0
    /\ best_match = NoMatch
    /\ best_score = 0
    /\ best_factors = {}
    /\ entry_mapped = FALSE

NextMatch ==
    \/ FindBestMatchStep
    \/ FindBestMatchReturn
    \/ CreateMappingEntry

SpecMatch == InitMatch /\ [][NextMatch]_vars

\* C39: the offline table generator never accepts (confidence >= 0.4) a
\* pairing in which the gender component of the input field differs from
\* the gender part of the remote key's "age, gender" detail, for every input
\* field name and remote key: the 0.8 penalty always outweighs the
\* category, sub-category, location, age and fuzzy bonuses.
C39_GenderMismatchNeverAccepted ==
    entry_mapped => ~GenderMismatch(health_field, best_match)

\* what holds: without the location bonus of the referral keys the penalty
\* outweighs the other bonuses
C39_MismatchAcceptedOnlyWithLocation ==
    (entry_mapped /\ GenderMismatch(health_field, best_match))
        => {"category", "type", "location", "age_group"} \subseteq best_factors

====
